---------------------------- MODULE Spec2Model ----------------------------
(***************************************************************************)
(* State-machine model of stm (SSH Tunnel Manager): the reducer App::update *)
(* of src/app.rs, the detached tasks it spawns, the action channel that    *)
(* carries their reports back, and the ssh ControlMaster processes the     *)
(* tasks talk to through their control sockets.                            *)
(*                                                                         *)
(* Positions are 1-based here (Rust position p is p + 1); an Option<usize> *)
(* selection is 0 for None.  Uuid::new_v4 is a generator that never        *)
(* repeats: the next unused number.                                        *)
(*                                                                         *)
(* Spec is the whole program.  SpecSession, SpecTunnels and SpecTasks are  *)
(* the same program under a user who presses only some of the keys: the    *)
(* session life cycle on two hosts, the tunnel protocol on one host, and   *)
(* the detached tasks of one host with the timer.                          *)
(***************************************************************************)
EXTENDS Integers, Sequences, FiniteSets, Bags, TLC

(***************************************************************************)
(* Bounds of the model.                                                    *)
(***************************************************************************)
MaxConnects == 2   \* Connect requests issued in a run
MaxPending == 3    \* tasks in flight plus messages waiting in the channel
MaxWork == 4       \* Connect requests issued, tunnel identities generated and
                   \* tunnel commands, teardowns and reports outstanding
MaxQuery == 1      \* characters of the search query

(***************************************************************************)
(* Hosts, as load_hosts leaves them, and the forwarding specs a user may   *)
(* type into the add-tunnel modal.                                         *)
(***************************************************************************)
Hosts ==
  << [name |-> "prod", hostname |-> "10.0.0.1", port |-> 22],
     [name |-> "dev",  hostname |-> "10.0.0.2", port |-> 22] >>

HostIdx == 1..Len(Hosts)
HostNames == {Hosts[i].name : i \in HostIdx}

TunnelInputs ==
  { [local_port |-> 5432, remote_host |-> "localhost", remote_port |-> 5432],
    [local_port |-> 8080, remote_host |-> "10.0.0.1",  remote_port |-> 80] }

NoSpec == <<0, "", 0>>

\* ConnectionManager::new: the socket path is a function of the effective
\* host name and port.
socket_path(h) == <<h.hostname, h.port>>

Socks == {socket_path(Hosts[i]) : i \in HostIdx}

\* Tunnel::forward_spec: "local_port:remote_host:remote_port".
forward_spec(t) == <<t.local_port, t.remote_host, t.remote_port>>

Rules == {forward_spec(s) : s \in TunnelInputs}

\* Messages the tasks put into ConnectionFailed.
ConnectError == "Connection failed: unknown error"
LostError == "Connection lost"

VARIABLES
  running,            \* App.running
  connection,         \* App.connection: the pre-created ConnectionManager
  connection_status,  \* App.connection_status
  tunnels,            \* App.tunnels
  tunnel_list_state,  \* App.tunnel_list_state.selected()
  active_panel,       \* App.active_panel
  add_modal,          \* App.add_modal.is_some()
  modal_error,        \* App.add_modal's error_message ("" for None)
  search_mode,        \* App.search_mode
  search_query,       \* App.search_query, a sequence of characters
  filtered_host_indices, \* App.filtered_host_indices (positions from 1)
  show_help,          \* App.show_help
  tick_count,         \* App.tick_count, as far as it is read: modulo 40
  ssh_config,         \* the ssh config files that load_hosts reads
  hosts,              \* App.hosts, as far as load_hosts decides it
  history,            \* App.history.hosts
  action_rx,          \* the action channel (unbounded mpsc), oldest first
  tasks,              \* detached tokio tasks in flight (a bag)
  master,             \* per control socket: the ssh master and its forwards
  gen,                \* number of Connect messages applied (names sessions)
  next_id,            \* identities generated so far + 1
  issued,             \* history: every identity that has been in the registry
  exp                 \* history: progress of one enable-then-disable of a tunnel

vars == <<running, connection, connection_status, tunnels, tunnel_list_state,
          active_panel, add_modal, modal_error, search_mode, search_query,
          filtered_host_indices, show_help, tick_count, ssh_config, hosts, history, action_rx, tasks, master,
          gen, next_id, issued, exp>>


(***************************************************************************)
(* Values.                                                                 *)
(***************************************************************************)
\* Option<ConnectionManager>: host = 0 is None.  g names the Connect that
\* created the manager.
NoConnection == [host |-> 0, g |-> 0]

Disconnected == [st |-> "Disconnected", arg |-> ""]
Connecting == [st |-> "Connecting", arg |-> ""]
Connected(name) == [st |-> "Connected", arg |-> name]
Error(msg) == [st |-> "Error", arg |-> msg]

\* Action, with the fields of every variant in one record shape: n an index
\* or identity, flag a bool, msg a string; g is not read by the reducer and
\* names the session a report is about or, in the ToggleTunnel that
\* ModalSubmit or RestoreTunnels sends, the tunnel it was sent for.
Msg(op, n, flag, msg, g) ==
  [op |-> op, n |-> n, flag |-> flag, msg |-> msg, g |-> g]

\* A detached task: its captured snapshot and where it stands.
Task(kind, pc, sock, g, id, spec, enabled, report) ==
  [kind |-> kind, pc |-> pc, sock |-> sock, g |-> g, id |-> id,
   spec |-> spec, enabled |-> enabled, report |-> report]

ConnectTask(h, g) ==
  Task("connect", "start", socket_path(Hosts[h]), g, 0, NoSpec, FALSE, TRUE)
\* The teardown task as it would be if the one Connect spawns reported too.
DisconnectTask_reporting(c, report) ==
  Task("disconnect", "start", socket_path(Hosts[c.host]), c.g, 0, NoSpec,
       FALSE, TRUE)
DisconnectTask(c, report) ==
  Task("disconnect", "start", socket_path(Hosts[c.host]), c.g, 0, NoSpec,
       FALSE, report)
CheckTask(c) ==
  Task("check", "start", socket_path(Hosts[c.host]), c.g, 0, NoSpec, FALSE,
       TRUE)
ToggleTask(c, t) ==
  Task("toggle", "start", socket_path(Hosts[c.host]), c.g, t.id,
       forward_spec(t), t.enabled, TRUE)
DeleteTask(c, t) ==
  Task("delete", "start", socket_path(Hosts[c.host]), c.g, t.id,
       forward_spec(t), t.enabled, TRUE)

Spawn(bag, t) == bag (+) SetToBag({t})
Finish(bag, t) == bag (-) SetToBag({t})
Advance(bag, t, u) == (bag (-) SetToBag({t})) (+) SetToBag({u})

TunnelTasks == {"toggle", "delete"}

\* Outstanding work: tasks in flight and messages waiting in q.
Pending(q) == BagCardinality(tasks) + Len(q)

\* Room for n more tasks or messages.
Room(q, n) == Pending(q) + n <= MaxPending

TunnelOps == {"ToggleTunnel", "TunnelToggled", "TunnelFailed", "TunnelDeleted"}

\* Outstanding tunnel work: tunnel tasks in flight, tunnel messages in q.
PendingOps(q) ==
  LET S == {t \in BagToSet(tasks) : t.kind \in TunnelTasks}
  IN BagCardinality([t \in S |-> tasks[t]])
     + Cardinality({i \in 1..Len(q) : q[i].op \in TunnelOps})

\* Connect messages still waiting in q
PendingConnects(q) == Cardinality({i \in 1..Len(q) : q[i].op = "Connect"})

\* Teardowns the user asked for that are still in flight or unreported.
PendingTeardowns(q) ==
  LET S == {t \in BagToSet(tasks) : t.kind = "disconnect" /\ t.report}
  IN BagCardinality([t \in S |-> tasks[t]])
     + Cardinality({i \in 1..Len(q) : q[i].op = "Disconnected"})

\* The work of the run so far.
Work(q) ==
  gen + PendingConnects(q) + (next_id - 1) + PendingOps(q) + PendingTeardowns(q)

\* Room for n more units of work.
RoomWork(q, n) == Work(q) + n <= MaxWork

\* Room for n more tunnel tasks or messages.
RoomOps(q, n) == Room(q, n) /\ RoomWork(q, n)

\* owner (history): the session whose connect task spawned the master, kept
\* for a master that came up while the teardown of an older session was in
\* flight for its socket (0 for every other master).
NoMaster == [up |-> FALSE, rules |-> [r \in Rules |-> 0], owner |-> 0]
FreshMaster == [up |-> TRUE, rules |-> [r \in Rules |-> 0], owner |-> 0]

\* exp.ph: 0 idle; 1 the enable is in flight; 2 it completed; 3 the disable
\* is in flight; 4 it completed.
Idle == [ph |-> 0, id |-> 0]

NoHistory == [present |-> FALSE, use_count |-> 0, tunnels |-> <<>>]

\* What History::load may find at startup: no file, or a record of the first
\* host with one saved tunnel.
SavedInput == CHOOSE s \in TunnelInputs : s.local_port = 5432
LoadedHistories ==
  { [n \in HostNames |-> NoHistory],
    [n \in HostNames |->
       IF n = Hosts[1].name
       THEN [present |-> TRUE, use_count |-> 1, tunnels |-> <<SavedInput>>]
       ELSE NoHistory] }

(***************************************************************************)
(* Text that is parsed.  A typed number is the sequence of its digits (the *)
(* modal takes only digits into a port field); a file name and an Include  *)
(* pattern are sequences of characters.                                    *)
(***************************************************************************)
RECURSIVE DecimalValue(_)
DecimalValue(ds) ==
  IF ds = <<>> THEN 0
  ELSE 10 * DecimalValue(SubSeq(ds, 1, Len(ds) - 1)) + ds[Len(ds)]

\* str::parse::<u16>() on digits: -1 for Err (no digit, or more than
\* u16::MAX).
parse_u16(ds) ==
  IF ds = <<>> \/ DecimalValue(ds) > 65535 THEN -1 ELSE DecimalValue(ds)

\* What the user may have typed into the modal when Enter is pressed: texts
\* that pass validate (they yield TunnelInputs) and texts that break a rule.
ValidTexts ==
  { [local_port |-> <<5, 4, 3, 2>>, remote_host |-> "localhost",
     remote_port |-> <<5, 4, 3, 2>>],
    [local_port |-> <<8, 0, 8, 0>>, remote_host |-> "10.0.0.1",
     remote_port |-> <<8, 0>>] }

ModalTexts ==
  ValidTexts \cup
  { [local_port |-> <<>>, remote_host |-> "localhost",
     remote_port |-> <<5, 4, 3, 2>>],
    [local_port |-> <<0>>, remote_host |-> "localhost",
     remote_port |-> <<5, 4, 3, 2>>],
    [local_port |-> <<7, 0, 0, 0, 0>>, remote_host |-> "",
     remote_port |-> <<>>],
    [local_port |-> <<8, 0, 8, 0>>, remote_host |-> "",
     remote_port |-> <<8, 0>>],
    [local_port |-> <<8, 0, 8, 0>>, remote_host |-> "10.0.0.1",
     remote_port |-> <<>>],
    [local_port |-> <<8, 0, 8, 0>>, remote_host |-> "10.0.0.1",
     remote_port |-> <<0, 0>>] }

(***************************************************************************)
(* The ssh config reader (ssh/config.rs).  A line is the pair that         *)
(* split_config_line makes of it, the keyword in lower case.  The files    *)
(* are those of the directory of the config file; a file that is there may *)
(* be unreadable.                                                          *)
(***************************************************************************)
\* The names that files of the directory may have, in the order in which
\* glob_paths sorts its entries; the third is the config file.
DirOrder ==
  << <<"a", ".", "c">>, <<"b", ".", "c">>, <<"c", "f", "g">>,
     <<"z", ".", "o">> >>

ConfigPath == DirOrder[3]

Line(keyword, value) == [keyword |-> keyword, value |-> value]

\* Option<SshHost>::None; in an SshHost, hostname "" and port -1 are None.
NoHost == [name |-> "", hostname |-> "", port |-> -1]

\* is_wildcard_only, on the Host patterns of the configs here: every part
\* of the pattern starts with * or !.
is_wildcard_only(name) == name \in {"*", "* !bastion"}

\* if let Some(host) = current_host.take() { if !is_wildcard_only { push } }
push_current(hs, current_host) ==
  IF current_host # NoHost /\ ~is_wildcard_only(current_host.name)
  THEN Append(hs, current_host)
  ELSE hs

\* matches_simple_glob: "*", "*suffix" (ends_with), "prefix*"
\* (starts_with), or the name itself.
matches_simple_glob(name, pattern) ==
  LET n == Len(name)
      k == Len(pattern) - 1
  IN IF pattern = <<"*">> THEN TRUE
     ELSE IF pattern # <<>> /\ Head(pattern) = "*"
     THEN k <= n /\ SubSeq(name, n - k + 1, n) = Tail(pattern)
     ELSE IF pattern # <<>> /\ pattern[Len(pattern)] = "*"
     THEN k <= n /\ SubSeq(name, 1, k) = SubSeq(pattern, 1, k)
     ELSE name = pattern

\* glob_paths: the entries of the directory that match, sorted.
glob_paths(fs, pattern) ==
  SelectSeq(DirOrder,
            LAMBDA n : n \in DOMAIN fs /\ matches_simple_glob(n, pattern))

ParseOk(hs) == [ok |-> TRUE, hosts |-> hs]
ParseErr == [ok |-> FALSE, hosts |-> <<>>]

RECURSIVE parse_ssh_config(_, _)
RECURSIVE parse_ssh_config_content(_, _, _, _, _)
RECURSIVE resolve_include(_, _)
RECURSIVE resolve_include_glob(_, _, _)

\* resolve_include: a pattern with * or ? is a glob and skips the files
\* that fail; a plain path that names a file passes the failure on (?).
resolve_include(fs, pattern) ==
  IF \E i \in 1..Len(pattern) : pattern[i] \in {"*", "?"}
  THEN ParseOk(resolve_include_glob(fs, glob_paths(fs, pattern), 1))
  ELSE IF pattern \in DOMAIN fs
  THEN parse_ssh_config(fs, pattern)
  ELSE ParseOk(<<>>)

\* for path in paths { match parse_ssh_config(&path) { .. } }, from the i-th
resolve_include_glob(fs, paths, i) ==
  IF i > Len(paths) THEN <<>>
  ELSE LET r == parse_ssh_config(fs, paths[i])
       IN (IF r.ok THEN r.hosts ELSE <<>>)
            \o resolve_include_glob(fs, paths, i + 1)

\* parse_ssh_config_content: the loop over the lines, from the i-th, with
\* the hosts pushed so far and the host block that is open.
parse_ssh_config_content(fs, lines, i, hs, current_host) ==
  IF i > Len(lines) THEN ParseOk(push_current(hs, current_host))
  ELSE LET keyword == lines[i].keyword
           value == lines[i].value
       IN IF keyword = "host"
          THEN parse_ssh_config_content(fs, lines, i + 1,
                 push_current(hs, current_host),
                 IF is_wildcard_only(value) THEN NoHost
                 ELSE [NoHost EXCEPT !.name = value])
          ELSE IF keyword = "match"
          THEN parse_ssh_config_content(fs, lines, i + 1,
                 push_current(hs, current_host), NoHost)
          ELSE IF keyword = "include"
          THEN LET include_hosts == resolve_include(fs, value)
               IN IF include_hosts.ok
                  THEN parse_ssh_config_content(fs, lines, i + 1,
                         push_current(hs, current_host) \o include_hosts.hosts,
                         NoHost)
                  ELSE ParseErr
          ELSE IF current_host = NoHost
          THEN parse_ssh_config_content(fs, lines, i + 1, hs, current_host)
          ELSE IF keyword = "hostname"
          THEN parse_ssh_config_content(fs, lines, i + 1, hs,
                 [current_host EXCEPT !.hostname = value])
          ELSE IF keyword = "port" /\ parse_u16(value) >= 0
          THEN parse_ssh_config_content(fs, lines, i + 1, hs,
                 [current_host EXCEPT !.port = parse_u16(value)])
          ELSE parse_ssh_config_content(fs, lines, i + 1, hs, current_host)

\* parse_ssh_config: read_to_string fails on a file that is not there or
\* cannot be read.
parse_ssh_config(fs, path) ==
  IF path \in DOMAIN fs /\ fs[path].readable
  THEN parse_ssh_config_content(fs, fs[path].lines, 1, <<>>, NoHost)
  ELSE ParseErr

\* main and App::load_hosts: the hosts of the config file, none when it is
\* not there or the parse fails.
load_hosts(fs) ==
  LET r == parse_ssh_config(fs, ConfigPath)
  IN IF r.ok THEN r.hosts ELSE <<>>

\* The config file of the runs of the program: it yields Hosts.
ProgramConfig ==
  ConfigPath :>
    [readable |-> TRUE,
     lines |-> << Line("host", "prod"), Line("hostname", "10.0.0.1"),
                  Line("port", <<2, 2>>),
                  Line("host", "dev"), Line("hostname", "10.0.0.2"),
                  Line("port", <<2, 2>>) >>]

\* The characters a user types into the search.
SearchChars == {"P", "z"}

\* rebuild_filtered_indices: every position for the empty query, else the
\* positions of the hosts whose name or hostname, in lower case, contains the
\* query in lower case.  chars spells the strings of Hosts and to_lowercase
\* is the identity on all characters in play but "P".
rebuild_filtered_indices(hs, query) ==
  LET chars(str) ==
        CASE str = "prod" -> <<"p", "r", "o", "d">>
          [] str = "dev" -> <<"d", "e", "v">>
          [] str = "10.0.0.1" -> <<"1", "0", ".", "0", ".", "0", ".", "1">>
          [] str = "10.0.0.2" -> <<"1", "0", ".", "0", ".", "0", ".", "2">>
          [] OTHER -> <<>>
      to_lowercase(cs) ==
        [i \in 1..Len(cs) |-> IF cs[i] = "P" THEN "p" ELSE cs[i]]
      contains(cs, pat) ==
        \E k \in 0..(Len(cs) - Len(pat)) :
          \A j \in 1..Len(pat) : cs[k + j] = pat[j]
      lowered == to_lowercase(query)
      matches(i) ==
        \/ contains(to_lowercase(chars(hs[i].name)), lowered)
        \/ /\ hs[i].hostname # ""
           /\ contains(to_lowercase(chars(hs[i].hostname)), lowered)
  IN IF query = <<>>
     THEN [i \in 1..Len(hs) |-> i]
     ELSE SelectSeq([i \in 1..Len(hs) |-> i], matches)

\* App::new, then load_hosts: fs are the config files and hs is what the
\* load has left in App.hosts.
InitWith(fs, hs) ==
  /\ running = TRUE
  /\ connection = NoConnection
  /\ connection_status = Disconnected
  /\ tunnels = <<>>
  /\ tunnel_list_state = 0
  /\ active_panel = "Hosts"
  /\ add_modal = FALSE
  /\ modal_error = ""
  /\ search_mode = FALSE
  /\ search_query = <<>>
  /\ filtered_host_indices = rebuild_filtered_indices(hs, <<>>)
  /\ show_help = FALSE
  /\ tick_count = 0
  /\ ssh_config = fs
  /\ hosts = hs
  /\ history \in LoadedHistories
  /\ action_rx = <<>>
  /\ tasks = EmptyBag
  /\ master = [s \in Socks |-> NoMaster]
  /\ gen = 0
  /\ next_id = 1
  /\ issued = {}
  /\ exp = Idle

Init == InitWith(ProgramConfig, load_hosts(ProgramConfig))

(***************************************************************************)
(* Pure helpers of the reducer.                                            *)
(***************************************************************************)
Min(a, b) == IF a < b THEN a ELSE b
Max(a, b) == IF a > b THEN a ELSE b

\* Tunnel::new as it would be with a fixed identity in place of
\* Uuid::new_v4().
Tunnel_new_fixed_id(s, uuid) ==
  [id |-> 1, local_port |-> s.local_port, remote_host |-> s.remote_host,
   remote_port |-> s.remote_port, enabled |-> FALSE]

\* Tunnel::new: a fresh identity (Uuid::new_v4, here the next unused
\* number), the given spec, enabled = false.
Tunnel_new(s, uuid) ==
  [id |-> uuid, local_port |-> s.local_port, remote_host |-> s.remote_host,
   remote_port |-> s.remote_port, enabled |-> FALSE]

\* SavedTunnel::from(&Tunnel)
SavedTunnel_from(t) ==
  [local_port |-> t.local_port, remote_host |-> t.remote_host,
   remote_port |-> t.remote_port]

\* History::record_connection
record_connection(h, name) ==
  [h EXCEPT ![name] = [present |-> TRUE, use_count |-> @.use_count + 1,
                       tunnels |-> @.tunnels]]

\* save_tunnels as it would be if it stored the enabled tunnels only.
save_tunnels_enabled_only(h, name, ts) ==
  IF h[name].present
  THEN [h EXCEPT ![name].tunnels =
          LET on == SelectSeq(ts, LAMBDA t : t.enabled)
          IN [i \in 1..Len(on) |-> SavedTunnel_from(on[i])]]
  ELSE h

\* History::save_tunnels: only a host that has an entry is written.
save_tunnels(h, name, ts) ==
  IF h[name].present
  THEN [h EXCEPT ![name].tunnels = [i \in 1..Len(ts) |-> SavedTunnel_from(ts[i])]]
  ELSE h

\* History::get_saved_tunnels
get_saved_tunnels(h, name) == IF h[name].present THEN h[name].tunnels ELSE <<>>

\* for st in saved { tunnels.push(Tunnel::new(..)) }
push_saved(ts, saved, first_id) ==
  ts \o [i \in 1..Len(saved) |-> Tunnel_new(saved[i], first_id + i - 1)]

\* tunnels.iter().position(|t| t.id == id), 0 when absent
position_of(ts, id) ==
  IF \E i \in 1..Len(ts) : ts[i].id = id
  THEN CHOOSE i \in 1..Len(ts) :
         ts[i].id = id /\ \A j \in 1..(i - 1) : ts[j].id # id
  ELSE 0

\* TunnelToggled as it would be if it resolved its tunnel by list position.
set_enabled_at_position(ts, id, enabled) ==
  IF id \in 1..Len(ts) THEN [ts EXCEPT ![id].enabled = enabled] ELSE ts

\* tunnels.iter_mut().find(|t| t.id == id) then tunnel.enabled = enabled
set_enabled(ts, id, enabled) ==
  LET p == position_of(ts, id)
  IN IF p = 0 THEN ts ELSE [ts EXCEPT ![p].enabled = enabled]

\* tunnels.retain(|t| t.id != id)
retain_not(ts, id) == SelectSeq(ts, LAMBDA t : t.id # id)

\* App::fix_tunnel_selection
fix_tunnel_selection(ts, sel) ==
  IF Len(ts) = 0 THEN 0
  ELSE IF sel # 0 /\ sel > Len(ts) THEN Len(ts)
  ELSE sel

\* App::navigate in the tunnel panel
navigate(ts, sel, delta) ==
  IF Len(ts) = 0 THEN sel
  ELSE LET current == IF sel = 0 THEN 1 ELSE sel
       IN IF delta > 0 THEN Min(current + 1, Len(ts))
          ELSE Max(current - 1, 1)

\* is_port_available(local_port): the port cannot be bound while a master
\* listens on it for an active forward.
is_port_available(port) ==
  \A s \in Socks : \A r \in Rules :
    (master[s].up /\ master[s].rules[r] > 0) => r[1] # port

\* AddModalState::validate: the triple, or the error message that is set.
validate(text) ==
  LET local_port == parse_u16(text.local_port)
      remote_port == parse_u16(text.remote_port)
      Rejected(msg) == [ok |-> FALSE, error |-> msg, input |-> NoSpec]
  IN IF local_port <= 0 THEN Rejected("Invalid local port")
     ELSE IF text.remote_host = "" THEN Rejected("Remote host cannot be empty")
     ELSE IF remote_port <= 0 THEN Rejected("Invalid remote port")
     ELSE IF ~is_port_available(local_port)
     THEN Rejected("Port " \o ToString(local_port) \o " is already in use")
     ELSE [ok |-> TRUE, error |-> "",
           input |-> [local_port |-> local_port,
                      remote_host |-> text.remote_host,
                      remote_port |-> remote_port]]

(***************************************************************************)
(* The ssh master behind a control socket (the process the tasks reach     *)
(* with ssh -S <socket> -O ...).                                           *)
(***************************************************************************)
\* -O forward: a forward the master already holds is answered with success
\* and not added again.
MasterOpenFwd(m, rule) ==
  IF m.rules[rule] > 0 THEN m ELSE [m EXCEPT !.rules[rule] = 1]

\* -O cancel
MasterCloseFwd(m, rule) == [m EXCEPT !.rules[rule] = 0]

\* add_tunnel as it would be if every call started a forwarder of its own
\* (ssh -L spec target) instead of asking the master of the session.
add_tunnel_own_forwarder(m, rule) ==
  IF m.up
  THEN { [master |-> [m EXCEPT !.rules[rule] = @ + 1], res |-> "ok"],
         [master |-> m, res |-> "Failed to add tunnel"] }
  ELSE { [master |-> m, res |-> "Failed to add tunnel"] }

\* add_tunnel: the outcomes of `ssh -S socket -O forward -L spec target`.
add_tunnel(m, rule) ==
  IF m.up
  THEN { [master |-> MasterOpenFwd(m, rule), res |-> "ok"],
         [master |-> m, res |-> "Failed to add tunnel"] }
  ELSE { [master |-> m, res |-> "Failed to add tunnel"] }

\* remove_tunnel: the outcomes of `ssh -S socket -O cancel -L spec target`.
remove_tunnel(m, rule) ==
  IF m.up
  THEN { [master |-> MasterCloseFwd(m, rule), res |-> "ok"],
         [master |-> m, res |-> "Failed to remove tunnel"] }
  ELSE { [master |-> m, res |-> "Failed to remove tunnel"] }

(***************************************************************************)
(* History bookkeeping for the enable-then-disable scenario: exp follows   *)
(* one tunnel through a toggle that enables it and, once that completed,   *)
(* a toggle that disables it, and is reset when anything else is requested *)
(* for that tunnel or a request for it fails.                              *)
(***************************************************************************)
\* A task or a report for tunnel id is outstanding (q: the channel).
Busy(id, q) ==
  \/ \E t \in BagToSet(tasks) : t.kind \in TunnelTasks /\ t.id = id
  \/ \E i \in 1..Len(q) :
       q[i].op \in TunnelOps \ {"ToggleTunnel"} /\ q[i].n = id

ExpDispatch(t, q) ==
  IF exp.id = t.id /\ exp.ph = 2 THEN [ph |-> 3, id |-> t.id]
  ELSE IF exp.id = t.id /\ exp.ph \in {1, 3} THEN Idle
  ELSE IF exp.ph \in {0, 4} /\ ~t.enabled /\ ~Busy(t.id, q) THEN [ph |-> 1, id |-> t.id]
  ELSE IF exp.id = t.id THEN Idle
  ELSE exp

ExpToggled(id) ==
  IF exp.id = id /\ exp.ph \in {1, 3} THEN [exp EXCEPT !.ph = @ + 1] ELSE exp

ExpDrop(id) == IF exp.id = id THEN Idle ELSE exp

(***************************************************************************)
(* App::update, one operator per Action variant.  q is the action channel  *)
(* as this step leaves it before the handler sends anything.               *)
(***************************************************************************)
\* Connect as it would be without self.tunnels.clear().
UpdateConnectKeepingTunnels(idx, q) ==
  /\ IF idx \in HostIdx
     THEN /\ tasks' = Spawn(IF connection.host # 0
                            THEN Spawn(tasks, DisconnectTask(connection, FALSE))
                            ELSE tasks,
                            ConnectTask(idx, gen + 1))
          /\ UNCHANGED <<tunnels, tunnel_list_state>>
          /\ connection_status' = Connecting
          /\ connection' = [host |-> idx, g |-> gen + 1]
          /\ gen' = gen + 1
          /\ action_rx' = q
          /\ exp' = Idle
          /\ UNCHANGED <<running, active_panel, add_modal, modal_error,
                         search_mode, search_query,
                 filtered_host_indices, show_help, tick_count, ssh_config,
                         hosts, history, master, next_id, issued>>
     ELSE /\ action_rx' = q
          /\ UNCHANGED <<running, connection, connection_status, tunnels,
                         tunnel_list_state, active_panel, add_modal,
                         modal_error, search_mode, search_query,
                 filtered_host_indices, show_help, tick_count,
                         ssh_config, hosts, history, tasks, master, gen,
                         next_id, issued, exp>>

UpdateConnect(idx, q) ==
  /\ IF idx \in HostIdx
     THEN /\ tasks' = Spawn(IF connection.host # 0
                            THEN Spawn(tasks, DisconnectTask(connection, FALSE))
                            ELSE tasks,
                            ConnectTask(idx, gen + 1))
          /\ tunnels' = <<>>
          /\ tunnel_list_state' = 0
          /\ connection_status' = Connecting
          /\ connection' = [host |-> idx, g |-> gen + 1]
          /\ gen' = gen + 1
          /\ action_rx' = q
          /\ exp' = Idle
          /\ UNCHANGED <<running, active_panel, add_modal, modal_error,
                         search_mode, search_query,
                 filtered_host_indices, show_help, tick_count, ssh_config,
                         hosts, history, master, next_id, issued>>
     ELSE /\ action_rx' = q
          /\ UNCHANGED <<running, connection, connection_status, tunnels,
                         tunnel_list_state, active_panel, add_modal,
                         modal_error, search_mode, search_query,
                 filtered_host_indices, show_help, tick_count,
                         ssh_config, hosts, history, tasks, master, gen,
                         next_id, issued, exp>>

UpdateConnectionEstablished(m, q) ==
  /\ action_rx' = q
  /\ IF connection.host # 0
     THEN LET name == Hosts[connection.host].name
              h1 == record_connection(history, name)
              saved == get_saved_tunnels(h1, name)
              ts == push_saved(tunnels, saved, next_id)
          IN /\ RoomWork(q, Len(saved))
             /\ connection_status' = Connected(name)
             /\ history' = h1
             /\ tunnels' = ts
             /\ next_id' = next_id + Len(saved)
             /\ issued' = issued \cup {ts[i].id : i \in 1..Len(ts)}
             /\ tunnel_list_state' = IF Len(ts) > 0 THEN 1 ELSE tunnel_list_state
             /\ UNCHANGED <<running, connection, active_panel, add_modal,
                            modal_error, search_mode, search_query,
                 filtered_host_indices, show_help, tick_count,
                            ssh_config, hosts, tasks, master, gen, exp>>
     ELSE UNCHANGED <<running, connection, connection_status, tunnels,
                      tunnel_list_state, active_panel, add_modal, modal_error,
                      search_mode, search_query,
                 filtered_host_indices, show_help, tick_count, ssh_config, hosts,
                      history, tasks, master, gen, next_id, issued, exp>>

\* ConnectionFailed as it would be without self.tunnels.clear().
UpdateConnectionFailedKeepingTunnels(m, q) ==
  /\ action_rx' = q
  /\ connection_status' = Error(m.msg)
  /\ connection' = NoConnection
  /\ exp' = Idle
  /\ UNCHANGED <<running, tunnels, tunnel_list_state, active_panel, add_modal,
                 modal_error, search_mode, search_query,
                 filtered_host_indices, show_help, tick_count, ssh_config,
                 hosts, history, tasks, master, gen, next_id, issued>>

UpdateConnectionFailed(m, q) ==
  /\ action_rx' = q
  /\ connection_status' = Error(m.msg)
  /\ connection' = NoConnection
  /\ tunnels' = <<>>
  /\ exp' = Idle
  /\ UNCHANGED <<running, tunnel_list_state, active_panel, add_modal,
                 modal_error, search_mode, search_query,
                 filtered_host_indices, show_help, tick_count, ssh_config,
                 hosts, history, tasks, master, gen, next_id, issued>>

\* Disconnect as it would be if it took the session and left the status.
UpdateDisconnectKeepingStatus(q) ==
  /\ action_rx' = q
  /\ IF connection.host # 0
     THEN /\ history' = save_tunnels(history, Hosts[connection.host].name, tunnels)
          /\ tasks' = Spawn(tasks, DisconnectTask(connection, TRUE))
          /\ connection' = NoConnection
          /\ tunnels' = <<>>
          /\ tunnel_list_state' = 0
          /\ exp' = Idle
          /\ UNCHANGED <<running, connection_status, active_panel, add_modal,
                         modal_error, search_mode, search_query,
                 filtered_host_indices, show_help, tick_count,
                         ssh_config, hosts, master, gen, next_id, issued>>
     ELSE UNCHANGED <<running, connection, connection_status, tunnels,
                      tunnel_list_state, active_panel, add_modal,
                      modal_error, search_mode, search_query,
                 filtered_host_indices, show_help, tick_count,
                      ssh_config, hosts, history, tasks, master, gen, next_id,
                      issued, exp>>

UpdateDisconnect(q) ==
  /\ action_rx' = q
  /\ IF connection.host # 0
     THEN /\ history' = save_tunnels(history, Hosts[connection.host].name, tunnels)
          /\ tasks' = Spawn(tasks, DisconnectTask(connection, TRUE))
          /\ connection' = NoConnection
          /\ connection_status' = Disconnected
          /\ tunnels' = <<>>
          /\ tunnel_list_state' = 0
          /\ exp' = Idle
          /\ UNCHANGED <<running, active_panel, add_modal, modal_error,
                         search_mode, search_query,
                 filtered_host_indices, show_help, tick_count, ssh_config,
                         hosts, master, gen, next_id, issued>>
     ELSE UNCHANGED <<running, connection, connection_status, tunnels,
                      tunnel_list_state, active_panel, add_modal, modal_error,
                      search_mode, search_query,
                 filtered_host_indices, show_help, tick_count, ssh_config, hosts,
                      history, tasks, master, gen, next_id, issued, exp>>

UpdateDisconnected(m, q) ==
  /\ action_rx' = q
  /\ connection' = NoConnection
  /\ connection_status' = Disconnected
  /\ tunnels' = <<>>
  /\ tunnel_list_state' = 0
  /\ exp' = Idle
  /\ UNCHANGED <<running, active_panel, add_modal, modal_error, search_mode, search_query,
                 filtered_host_indices,
                 show_help, tick_count, ssh_config, hosts, history, tasks,
                 master, gen, next_id, issued>>

UpdateShowAddTunnelModal(q) ==
  /\ action_rx' = q
  /\ IF connection_status.st = "Connected"
     THEN add_modal' = TRUE /\ modal_error' = ""
     ELSE UNCHANGED <<add_modal, modal_error>>
  /\ UNCHANGED <<running, connection, connection_status, tunnels,
                 tunnel_list_state, active_panel, search_mode, search_query,
                 filtered_host_indices, show_help,
                 tick_count, ssh_config, hosts, history, tasks, master, gen,
                 next_id, issued, exp>>

\* ModalSubmit as it would be if a rejected submission closed the modal.
UpdateModalSubmitClosing(text, q) ==
  /\ add_modal
  /\ LET v == validate(text)
     IN IF v.ok
        THEN /\ RoomOps(q, 1) /\ RoomWork(q, 2)
             /\ LET tunnel == Tunnel_new(v.input, next_id)
                    tunnel_idx == Len(tunnels) + 1
                IN /\ tunnels' = Append(tunnels, tunnel)
                   /\ next_id' = next_id + 1
                   /\ issued' = issued \cup {tunnel.id}
                   /\ add_modal' = FALSE
                   /\ modal_error' = ""
                   /\ action_rx' = Append(q, Msg("ToggleTunnel", tunnel_idx,
                                                  FALSE, "", tunnel.id))
                   /\ tunnel_list_state' = tunnel_idx
                   /\ active_panel' = "Tunnels"
        ELSE /\ modal_error' = ""
             /\ add_modal' = FALSE
             /\ action_rx' = q
             /\ UNCHANGED <<tunnels, next_id, issued, tunnel_list_state,
                            active_panel>>
  /\ UNCHANGED <<running, connection, connection_status, search_mode, search_query,
                 filtered_host_indices,
                 show_help, tick_count, ssh_config, hosts, history, tasks,
                 master, gen, exp>>

\* ModalSubmit: text is what the three fields of the modal hold.
UpdateModalSubmit(text, q) ==
  /\ add_modal
  /\ LET v == validate(text)
     IN IF v.ok
        THEN /\ RoomOps(q, 1) /\ RoomWork(q, 2)
             /\ LET tunnel == Tunnel_new(v.input, next_id)
                    tunnel_idx == Len(tunnels) + 1
                IN /\ tunnels' = Append(tunnels, tunnel)
                   /\ next_id' = next_id + 1
                   /\ issued' = issued \cup {tunnel.id}
                   /\ add_modal' = FALSE
                   /\ modal_error' = ""
                   /\ action_rx' = Append(q, Msg("ToggleTunnel", tunnel_idx,
                                                  FALSE, "", tunnel.id))
                   /\ tunnel_list_state' = tunnel_idx
                   /\ active_panel' = "Tunnels"
        ELSE /\ modal_error' = v.error
             /\ action_rx' = q
             /\ UNCHANGED <<tunnels, next_id, issued, add_modal,
                            tunnel_list_state, active_panel>>
  /\ UNCHANGED <<running, connection, connection_status, search_mode, search_query,
                 filtered_host_indices,
                 show_help, tick_count, ssh_config, hosts, history, tasks,
                 master, gen, exp>>

\* ModalInput, ModalBackspace: the text of a field changes (it is not kept
\* here) and error_message = None.
UpdateModalEdit(q) ==
  /\ action_rx' = q
  /\ modal_error' = IF add_modal THEN "" ELSE modal_error
  /\ UNCHANGED <<running, connection, connection_status, tunnels,
                 tunnel_list_state, active_panel, add_modal, search_mode, search_query,
                 filtered_host_indices,
                 show_help, tick_count, ssh_config, hosts, history, tasks,
                 master, gen, next_id, issued, exp>>

\* TunnelFailed as it would be if it were handled like a session error.
UpdateTunnelFailedAsSessionError(m, q) ==
  /\ action_rx' = q
  /\ connection_status' = Error(m.msg)
  /\ exp' = ExpDrop(m.n)
  /\ UNCHANGED <<running, connection, tunnels, tunnel_list_state,
                 active_panel, add_modal, modal_error, search_mode, search_query,
                 filtered_host_indices, show_help,
                 tick_count, ssh_config, hosts, history, tasks, master, gen,
                 next_id, issued>>

\* TunnelFailed: only the notification changes.
UpdateTunnelFailed(m, q) ==
  /\ action_rx' = q
  /\ exp' = ExpDrop(m.n)
  /\ UNCHANGED <<running, connection, connection_status, tunnels,
                 tunnel_list_state, active_panel, add_modal, modal_error,
                 search_mode, search_query,
                 filtered_host_indices, show_help, tick_count, ssh_config, hosts,
                 history, tasks, master, gen, next_id, issued>>

UpdateToggleTunnel(idx, q) ==
  /\ action_rx' = q
  /\ IF idx \in 1..Len(tunnels) /\ connection.host # 0
     THEN /\ tasks' = Spawn(tasks, ToggleTask(connection, tunnels[idx]))
          /\ exp' = ExpDispatch(tunnels[idx], q)
     ELSE UNCHANGED <<tasks, exp>>
  /\ UNCHANGED <<running, connection, connection_status, tunnels,
                 tunnel_list_state, active_panel, add_modal, modal_error,
                 search_mode, search_query,
                 filtered_host_indices, show_help, tick_count, ssh_config, hosts,
                 history, master, gen, next_id, issued>>

UpdateTunnelToggled(m, q) ==
  /\ action_rx' = q
  /\ tunnels' = set_enabled(tunnels, m.n, m.flag)
  /\ exp' = ExpToggled(m.n)
  /\ UNCHANGED <<running, connection, connection_status, tunnel_list_state,
                 active_panel, add_modal, modal_error, search_mode, search_query,
                 filtered_host_indices, show_help,
                 tick_count, ssh_config, hosts, history, tasks, master, gen,
                 next_id, issued>>

\* DeleteTunnel as it would be if it removed every tunnel at once, enabled
\* or not.
UpdateDeleteTunnelAtOnce(idx, q) ==
  /\ action_rx' = q
  /\ IF idx \in 1..Len(tunnels)
     THEN /\ tunnels' = retain_not(tunnels, tunnels[idx].id)
          /\ tunnel_list_state' = fix_tunnel_selection(tunnels', tunnel_list_state)
          /\ exp' = ExpDrop(tunnels[idx].id)
     ELSE UNCHANGED <<tunnels, tunnel_list_state, exp>>
  /\ UNCHANGED <<running, connection, connection_status, active_panel,
                 add_modal, modal_error, search_mode, search_query,
                 filtered_host_indices, show_help, tick_count,
                 ssh_config, hosts, history, tasks, master, gen, next_id,
                 issued>>

UpdateDeleteTunnel(idx, q) ==
  /\ action_rx' = q
  /\ IF idx \in 1..Len(tunnels)
     THEN LET tunnel == tunnels[idx]
          IN IF tunnel.enabled
             THEN /\ IF connection.host # 0
                     THEN tasks' = Spawn(tasks, DeleteTask(connection, tunnel))
                     ELSE UNCHANGED tasks
                  /\ exp' = ExpDrop(tunnel.id)
                  /\ UNCHANGED <<tunnels, tunnel_list_state>>
             ELSE /\ tunnels' = retain_not(tunnels, tunnel.id)
                  /\ tunnel_list_state' =
                       fix_tunnel_selection(tunnels', tunnel_list_state)
                  /\ exp' = ExpDrop(tunnel.id)
                  /\ UNCHANGED tasks
     ELSE UNCHANGED <<tasks, tunnels, tunnel_list_state, exp>>
  /\ UNCHANGED <<running, connection, connection_status, active_panel,
                 add_modal, modal_error, search_mode, search_query,
                 filtered_host_indices, show_help, tick_count,
                 ssh_config, hosts, history, master, gen, next_id, issued>>

UpdateTunnelDeleted(m, q) ==
  /\ action_rx' = q
  /\ tunnels' = retain_not(tunnels, m.n)
  /\ tunnel_list_state' = fix_tunnel_selection(tunnels', tunnel_list_state)
  /\ exp' = ExpDrop(m.n)
  /\ UNCHANGED <<running, connection, connection_status, active_panel,
                 add_modal, modal_error, search_mode, search_query,
                 filtered_host_indices, show_help, tick_count,
                 ssh_config, hosts, history, tasks, master, gen, next_id,
                 issued>>

\* RestoreTunnels: each saved spec is pushed and a ToggleTunnel for its
\* position is sent (flag and g of the message are history: it comes from a
\* restore, for the tunnel of identity g).
UpdateRestoreTunnels(q) ==
  /\ IF connection_status.st = "Connected"
     THEN LET saved == get_saved_tunnels(history, connection_status.arg)
              ts == push_saved(tunnels, saved, next_id)
          IN /\ RoomOps(q, Len(saved)) /\ RoomWork(q, 2 * Len(saved))
             /\ tunnels' = ts
             /\ next_id' = next_id + Len(saved)
             /\ issued' = issued \cup {ts[i].id : i \in 1..Len(ts)}
             /\ action_rx' = q \o [i \in 1..Len(saved) |->
                                    Msg("ToggleTunnel", Len(tunnels) + i, TRUE,
                                        "", ts[Len(tunnels) + i].id)]
             /\ IF Len(ts) > 0
                THEN tunnel_list_state' = 1 /\ active_panel' = "Tunnels"
                ELSE UNCHANGED <<tunnel_list_state, active_panel>>
     ELSE /\ action_rx' = q
          /\ UNCHANGED <<tunnels, next_id, issued, tunnel_list_state, active_panel>>
  /\ UNCHANGED <<running, connection, connection_status, add_modal,
                 modal_error, search_mode, search_query,
                 filtered_host_indices, show_help, tick_count, ssh_config,
                 hosts, history, tasks, master, gen, exp>>

\* A health check every 40 ticks (tick_count.is_multiple_of(40)).
HealthCheckTicks == 40

\* Tick as it would be if it spawned the check whatever the status.
UpdateTickUnconditional(skipped, q) ==
  /\ action_rx' = q
  /\ tick_count' = (tick_count + skipped + 1) % HealthCheckTicks
  /\ IF tick_count' = 0 /\ connection.host # 0
     THEN /\ Room(q, 1)
          /\ tasks' = Spawn(tasks, CheckTask(connection))
     ELSE UNCHANGED tasks
  /\ UNCHANGED <<running, connection, connection_status, tunnels,
                 tunnel_list_state, active_panel, add_modal, modal_error,
                 search_mode, search_query,
                 filtered_host_indices, show_help, ssh_config, hosts, history, master,
                 gen, next_id, issued, exp>>

\* Tick, applied after `skipped` Ticks none of which was due: those change
\* tick_count and nothing else of this state.
UpdateTick(skipped, q) ==
  /\ action_rx' = q
  /\ tick_count' = (tick_count + skipped + 1) % HealthCheckTicks
  /\ IF /\ tick_count' = 0
        /\ connection_status.st = "Connected"
        /\ connection.host # 0
     THEN /\ Room(q, 1)
          /\ tasks' = Spawn(tasks, CheckTask(connection))
     ELSE UNCHANGED tasks
  /\ UNCHANGED <<running, connection, connection_status, tunnels,
                 tunnel_list_state, active_panel, add_modal, modal_error,
                 search_mode, search_query,
                 filtered_host_indices, show_help, ssh_config, hosts, history, master,
                 gen, next_id, issued, exp>>

\* Quit as it would be if it left the main loop whatever is open.
UpdateQuitAtOnce ==
  running' = FALSE /\ UNCHANGED <<add_modal, modal_error, search_mode, search_query,
                 filtered_host_indices, show_help>>

\* Quit: the open modal is closed, else the search is left, else the help
\* overlay is closed, else the main loop is left.
UpdateQuit ==
  IF add_modal
  THEN /\ add_modal' = FALSE /\ modal_error' = ""
       /\ UNCHANGED <<running, search_mode, search_query,
                 filtered_host_indices, show_help>>
  ELSE IF search_mode
  THEN /\ search_mode' = FALSE
       /\ search_query' = <<>>
       /\ filtered_host_indices' = rebuild_filtered_indices(hosts, <<>>)
       /\ UNCHANGED <<running, add_modal, modal_error, show_help>>
  ELSE IF show_help
  THEN /\ show_help' = FALSE
       /\ UNCHANGED <<running, add_modal, modal_error, search_mode, search_query,
                 filtered_host_indices>>
  ELSE /\ running' = FALSE
       /\ UNCHANGED <<add_modal, modal_error, search_mode, search_query,
                 filtered_host_indices, show_help>>

\* StartSearch
UpdateStartSearch(q) ==
  /\ action_rx' = q
  /\ search_mode' = IF active_panel = "Hosts" THEN TRUE ELSE search_mode
  /\ search_query' = IF active_panel = "Hosts" THEN <<>> ELSE search_query
  /\ UNCHANGED <<running, connection, connection_status, tunnels,
                 tunnel_list_state, active_panel, add_modal, modal_error,
                 filtered_host_indices, show_help, tick_count, ssh_config, hosts, history, tasks,
                 master, gen, next_id, issued, exp>>

\* SearchInput(c)
UpdateSearchInput(c, q) ==
  /\ action_rx' = q
  /\ search_query' = IF search_mode THEN Append(search_query, c)
                                    ELSE search_query
  /\ filtered_host_indices' =
       IF search_mode THEN rebuild_filtered_indices(hosts, search_query')
                      ELSE filtered_host_indices
  /\ UNCHANGED <<running, connection, connection_status, tunnels,
                 tunnel_list_state, active_panel, add_modal, modal_error,
                 search_mode, show_help, tick_count, ssh_config, hosts,
                 history, tasks, master, gen, next_id, issued, exp>>

\* SearchBackspace: String::pop takes the last character, if there is one.
UpdateSearchBackspace(q) ==
  /\ action_rx' = q
  /\ search_query' =
       IF search_mode /\ search_query # <<>>
       THEN SubSeq(search_query, 1, Len(search_query) - 1)
       ELSE search_query
  /\ filtered_host_indices' =
       IF search_mode THEN rebuild_filtered_indices(hosts, search_query')
                      ELSE filtered_host_indices
  /\ UNCHANGED <<running, connection, connection_status, tunnels,
                 tunnel_list_state, active_panel, add_modal, modal_error,
                 search_mode, show_help, tick_count, ssh_config, hosts,
                 history, tasks, master, gen, next_id, issued, exp>>

\* EndSearch: the query and the filter stay.
UpdateEndSearch(q) ==
  /\ action_rx' = q
  /\ search_mode' = FALSE
  /\ UNCHANGED <<running, connection, connection_status, tunnels,
                 tunnel_list_state, active_panel, add_modal, modal_error,
                 search_query, filtered_host_indices, show_help, tick_count, ssh_config, hosts, history, tasks,
                 master, gen, next_id, issued, exp>>

\* ShowHelp
UpdateShowHelp(q) ==
  /\ action_rx' = q
  /\ show_help' = ~show_help
  /\ UNCHANGED <<running, connection, connection_status, tunnels,
                 tunnel_list_state, active_panel, add_modal, modal_error,
                 search_mode, search_query,
                 filtered_host_indices, tick_count, ssh_config, hosts, history, tasks,
                 master, gen, next_id, issued, exp>>

\* main, after the loop: the tunnels are saved and the session is
\* disconnected (awaited); returning from main drops the runtime, which
\* cancels the tasks still in flight and closes the channel.
Shutdown ==
  /\ IF connection.host # 0
     THEN /\ history' = save_tunnels(history, Hosts[connection.host].name, tunnels)
          /\ master' = [master EXCEPT ![socket_path(Hosts[connection.host])] = NoMaster]
     ELSE UNCHANGED <<history, master>>
  /\ connection' = NoConnection
  /\ tasks' = EmptyBag
  /\ action_rx' = <<>>

UpdateNavigate(delta, q) ==
  /\ action_rx' = q
  /\ tunnel_list_state' = IF active_panel = "Tunnels"
                          THEN navigate(tunnels, tunnel_list_state, delta)
                          ELSE tunnel_list_state
  /\ UNCHANGED <<running, connection, connection_status, tunnels,
                 active_panel, add_modal, modal_error, search_mode, search_query,
                 filtered_host_indices, show_help,
                 tick_count, ssh_config, hosts, history, tasks, master, gen,
                 next_id, issued, exp>>

UpdateSwitchPanel(q) ==
  /\ action_rx' = q
  /\ active_panel' = IF active_panel = "Hosts" THEN "Tunnels" ELSE "Hosts"
  /\ UNCHANGED <<running, connection, connection_status, tunnels,
                 tunnel_list_state, add_modal, modal_error, search_mode, search_query,
                 filtered_host_indices,
                 show_help, tick_count, ssh_config, hosts, history, tasks,
                 master, gen, next_id, issued, exp>>

\* Select: real_idx is the host the host list has selected.
UpdateSelect(real_idx, q) ==
  /\ IF active_panel = "Hosts"
     THEN /\ Room(q, 2) /\ RoomWork(q, 1)
          /\ action_rx' = Append(q, Msg("Connect", real_idx, FALSE, "", 0))
     ELSE action_rx' = q
  /\ UNCHANGED <<running, connection, connection_status, tunnels,
                 tunnel_list_state, active_panel, add_modal, modal_error,
                 search_mode, search_query,
                 filtered_host_indices, show_help, tick_count, ssh_config, hosts,
                 history, tasks, master, gen, next_id, issued, exp>>

(***************************************************************************)
(* The main loop (main.rs): tokio::select! over the terminal/timer events  *)
(* and the action channel.  A key is mapped by map_key_to_action against   *)
(* the state at the moment it is handled and applied at once.              *)
(***************************************************************************)
app_unchanged ==
  UNCHANGED <<running, connection, connection_status, tunnels,
              tunnel_list_state, active_panel, add_modal, modal_error,
              search_mode, search_query,
                 filtered_host_indices, show_help, tick_count, ssh_config, hosts, history,
              gen, next_id, issued, exp>>

\* No modal, search or help overlay takes the keys.
NormalMode == running /\ ~add_modal /\ ~search_mode /\ ~show_help

\* The Quit keys as they would be if Esc in the search were mapped to
\* EndSearch, which keeps the query and the filter.
KeyQuitEndingSearch ==
  IF ~add_modal /\ search_mode
  THEN running /\ UpdateEndSearch(action_rx)
  ELSE /\ running
       /\ UpdateQuit
       /\ IF running'
          THEN UNCHANGED <<connection, history, tasks, master, action_rx>>
          ELSE Shutdown
       /\ UNCHANGED <<connection_status, tunnels, tunnel_list_state,
                      active_panel, tick_count, ssh_config, hosts, gen,
                      next_id, issued, exp>>

\* Ctrl-C in any mode, Esc in the modal and in the search, q or Esc in the
\* normal mode.  Leaving the loop runs the cleanup of main.
KeyQuit ==
  /\ running
  /\ UpdateQuit
  /\ IF running'
     THEN UNCHANGED <<connection, history, tasks, master, action_rx>>
     ELSE Shutdown
  /\ UNCHANGED <<connection_status, tunnels, tunnel_list_state, active_panel,
                 tick_count, ssh_config, hosts, gen, next_id, issued, exp>>

\* Enter in the modal, whatever text it holds.
KeyModalSubmit ==
  /\ running /\ add_modal
  /\ \E text \in ModalTexts : UpdateModalSubmit(text, action_rx)

\* Enter in the modal on a text that passes validate.
KeyModalSubmitValid ==
  /\ running /\ add_modal
  /\ \E text \in ValidTexts :
       validate(text).ok /\ UpdateModalSubmit(text, action_rx)

\* A character or Backspace in the modal.
KeyModalEdit == running /\ add_modal /\ UpdateModalEdit(action_rx)

KeyStartSearch == NormalMode /\ UpdateStartSearch(action_rx)

\* A character or Backspace in the search.
KeySearchEdit ==
  /\ running /\ ~add_modal /\ search_mode
  /\ \/ \E c \in SearchChars :
          Len(search_query) < MaxQuery /\ UpdateSearchInput(c, action_rx)
     \/ UpdateSearchBackspace(action_rx)

KeyEndSearch ==
  running /\ ~add_modal /\ search_mode /\ UpdateEndSearch(action_rx)

\* ? in the normal mode; ?, q or Esc while the help overlay is shown.
KeyShowHelp ==
  running /\ ~add_modal /\ ~search_mode /\ UpdateShowHelp(action_rx)

KeyNavigate ==
  /\ NormalMode
  /\ \E delta \in {-1, 1} : UpdateNavigate(delta, action_rx)

\* Enter: Select, with the host list's selection among the hosts H.
KeySelectAmong(H) ==
  /\ NormalMode
  /\ gen + PendingConnects(action_rx) < MaxConnects
  /\ \E selected \in 1..Len(filtered_host_indices) :
       /\ filtered_host_indices[selected] \in H
       /\ UpdateSelect(filtered_host_indices[selected], action_rx)

KeySelect == KeySelectAmong(HostIdx)

KeySelectFirst == KeySelectAmong({1})

KeySwitchPanel == NormalMode /\ UpdateSwitchPanel(action_rx)

KeyDisconnect ==
  /\ NormalMode
  /\ Room(action_rx, 1) /\ RoomWork(action_rx, 1)
  /\ UpdateDisconnect(action_rx)

\* The a key taken in any mode, as if map_key_to_action looked at no overlay.
KeyShowAddTunnelModalInAnyMode ==
  running /\ UpdateShowAddTunnelModal(action_rx)

\* a in the normal mode.
KeyShowAddTunnelModal == NormalMode /\ UpdateShowAddTunnelModal(action_rx)

KeyRestoreTunnels == NormalMode /\ UpdateRestoreTunnels(action_rx)

KeyToggleTunnel ==
  /\ NormalMode
  /\ active_panel = "Tunnels" /\ tunnel_list_state # 0
  /\ RoomOps(action_rx, 1)
  /\ UpdateToggleTunnel(tunnel_list_state, action_rx)

KeyDeleteTunnel ==
  /\ NormalMode
  /\ active_panel = "Tunnels" /\ tunnel_list_state # 0
  /\ (tunnel_list_state \in 1..Len(tunnels)
        /\ tunnels[tunnel_list_state].enabled) => RoomOps(action_rx, 1)
  /\ UpdateDeleteTunnel(tunnel_list_state, action_rx)

\* One Tick of the 250 ms timer.
TimerTick == running /\ UpdateTick(0, action_rx)

\* The Ticks up to the next one that is due, the last of them applied now.
TimerTicks ==
  running /\ UpdateTick(HealthCheckTicks - 1 - tick_count, action_rx)

Receiving(op) == running /\ action_rx # <<>> /\ Head(action_rx).op = op

RecvConnect ==
  Receiving("Connect") /\ UpdateConnect(Head(action_rx).n, Tail(action_rx))
RecvConnectionEstablished ==
  /\ Receiving("ConnectionEstablished")
  /\ UpdateConnectionEstablished(Head(action_rx), Tail(action_rx))
RecvConnectionFailed ==
  /\ Receiving("ConnectionFailed")
  /\ UpdateConnectionFailed(Head(action_rx), Tail(action_rx))
RecvDisconnected ==
  Receiving("Disconnected") /\ UpdateDisconnected(Head(action_rx), Tail(action_rx))
RecvTunnelFailed ==
  Receiving("TunnelFailed") /\ UpdateTunnelFailed(Head(action_rx), Tail(action_rx))
RecvToggleTunnel ==
  Receiving("ToggleTunnel") /\ UpdateToggleTunnel(Head(action_rx).n, Tail(action_rx))
RecvTunnelToggled ==
  Receiving("TunnelToggled") /\ UpdateTunnelToggled(Head(action_rx), Tail(action_rx))
RecvTunnelDeleted ==
  Receiving("TunnelDeleted") /\ UpdateTunnelDeleted(Head(action_rx), Tail(action_rx))

(***************************************************************************)
(* The detached tasks.  A task runs its ssh command against the master     *)
(* behind the socket it captured and sends its one message; connect()      *)
(* sleeps between spawning ssh and checking it, so it takes two steps.     *)
(***************************************************************************)
Running(kind, pc, t) == running /\ t.kind = kind /\ t.pc = pc

\* The end of a task as it would be if the send were missing.
task_ends_silently(t, msgs) ==
  /\ tasks' = Finish(tasks, t)
  /\ action_rx' = action_rx
  /\ app_unchanged

\* The task ends, sending the messages msgs (none or one).
task_ends(t, msgs) ==
  /\ tasks' = Finish(tasks, t)
  /\ action_rx' = action_rx \o msgs
  /\ app_unchanged

\* The master that the ssh -M of connect task t becomes.
SpawnedMaster(t) ==
  [FreshMaster EXCEPT !.owner =
     IF \E d \in BagToSet(tasks) :
          d.kind = "disconnect" /\ d.sock = t.sock /\ d.g < t.g
     THEN t.g ELSE 0]

\* ConnectionManager::connect up to the sleep: ssh -M is spawned.  It becomes
\* the master of its socket unless one is already listening there, or fails
\* to come up.
ConnectSpawn ==
  \E t \in BagToSet(tasks) :
    /\ Running("connect", "start", t)
    /\ \E ok \in BOOLEAN :
         master' = IF ok /\ ~master[t.sock].up
                   THEN [master EXCEPT ![t.sock] = SpawnedMaster(t)]
                   ELSE master
    /\ tasks' = Advance(tasks, t, [t EXCEPT !.pc = "spawned"])
    /\ UNCHANGED action_rx
    /\ app_unchanged

\* The connect task as it would be if it reported a success only.
ConnectCheckSilentOnFailure ==
  \E t \in BagToSet(tasks) :
    /\ Running("connect", "spawned", t)
    /\ UNCHANGED master
    /\ task_ends(t, IF master[t.sock].up
                    THEN <<Msg("ConnectionEstablished", 0, FALSE, "", t.g)>>
                    ELSE <<>>)

\* ConnectionManager::connect after the sleep: check(), and cleanup() when
\* the master does not answer; then the task reports.
ConnectCheck ==
  \E t \in BagToSet(tasks) :
    /\ Running("connect", "spawned", t)
    /\ UNCHANGED master
    /\ task_ends(t, IF master[t.sock].up
                    THEN <<Msg("ConnectionEstablished", 0, FALSE, "", t.g)>>
                    ELSE <<Msg("ConnectionFailed", 0, FALSE, ConnectError, t.g)>>)

\* ConnectionManager::disconnect: -O exit, then cleanup().  The task of
\* Disconnect reports Disconnected; the one of Connect reports nothing.
DisconnectRun ==
  \E t \in BagToSet(tasks) :
    /\ Running("disconnect", "start", t)
    /\ master' = [master EXCEPT ![t.sock] = NoMaster]
    /\ task_ends(t, IF t.report
                    THEN <<Msg("Disconnected", 0, FALSE, "", t.g)>>
                    ELSE <<>>)

\* The health check of Tick: ssh -O check; a master that answers ends the
\* task without a message.
HealthCheckRun ==
  \E t \in BagToSet(tasks) :
    /\ Running("check", "start", t)
    /\ UNCHANGED master
    /\ task_ends(t, IF master[t.sock].up
                    THEN <<>>
                    ELSE <<Msg("ConnectionFailed", 0, TRUE, LostError, t.g)>>)

\* The flag a toggle task would report if it sent its snapshot unchanged.
toggled_flag_unchanged(currently_enabled) == currently_enabled

\* The flag a toggle task reports: !currently_enabled.
toggled_flag(currently_enabled) == ~currently_enabled

\* The task of ToggleTunnel: remove_tunnel when the snapshot was enabled,
\* add_tunnel otherwise; TunnelToggled(id, !currently_enabled) on success.
ToggleRun ==
  \E t \in BagToSet(tasks) :
    /\ Running("toggle", "start", t)
    /\ \E o \in (IF t.enabled THEN remove_tunnel(master[t.sock], t.spec)
                 ELSE add_tunnel(master[t.sock], t.spec)) :
         /\ master' = [master EXCEPT ![t.sock] = o.master]
         /\ task_ends(t, IF o.res = "ok"
                         THEN <<Msg("TunnelToggled", t.id, toggled_flag(t.enabled), "", t.g)>>
                         ELSE <<Msg("TunnelFailed", t.id, FALSE, o.res, t.g)>>)

\* The delete task as it would be if it reported only a disable that
\* succeeded.
DeleteRunReportingSuccess ==
  \E t \in BagToSet(tasks) :
    /\ Running("delete", "start", t)
    /\ \E o \in remove_tunnel(master[t.sock], t.spec) :
         /\ master' = [master EXCEPT ![t.sock] = o.master]
         /\ task_ends(t, IF o.res = "ok"
                         THEN <<Msg("TunnelDeleted", t.id, FALSE, "", t.g)>>
                         ELSE <<>>)

\* The task of DeleteTunnel on an enabled tunnel: remove_tunnel, result
\* dropped, then TunnelDeleted(id).
DeleteRun ==
  \E t \in BagToSet(tasks) :
    /\ Running("delete", "start", t)
    /\ \E o \in remove_tunnel(master[t.sock], t.spec) :
         /\ master' = [master EXCEPT ![t.sock] = o.master]
         /\ task_ends(t, <<Msg("TunnelDeleted", t.id, FALSE, "", t.g)>>)

\* The remote end or the network drops a session: its master exits.
MasterExits ==
  \E s \in Socks :
    /\ running /\ master[s].up
    /\ master' = [master EXCEPT ![s] = NoMaster]
    /\ UNCHANGED <<action_rx, tasks>>
    /\ app_unchanged

\* The program with both hosts, every key of the normal mode, the modal
\* with the texts that validate accepts, the timer and the tasks (the other
\* texts and the help overlay are in NextModal, the search in NextSearch).
Next ==
  \/ KeyQuit
  \/ KeyModalSubmitValid
  \/ KeyNavigate
  \/ KeySelect
  \/ KeySwitchPanel
  \/ KeyDisconnect
  \/ KeyShowAddTunnelModal
  \/ KeyRestoreTunnels
  \/ KeyToggleTunnel
  \/ KeyDeleteTunnel
  \/ TimerTicks
  \/ RecvConnect
  \/ RecvConnectionEstablished
  \/ RecvConnectionFailed
  \/ RecvDisconnected
  \/ RecvTunnelFailed
  \/ RecvToggleTunnel
  \/ RecvTunnelToggled
  \/ RecvTunnelDeleted
  \/ ConnectSpawn
  \/ ConnectCheck
  \/ DisconnectRun
  \/ HealthCheckRun
  \/ ToggleRun
  \/ DeleteRun
  \/ MasterExits

Spec == Init /\ [][Next]_vars

(***************************************************************************)
(* The session life cycle on its own: the user connects (to either host),  *)
(* disconnects and quits, the timer ticks and masters may exit; the        *)
(* tunnels are those loaded from the history.                              *)
(***************************************************************************)
NextSession ==
  \/ KeyQuit
  \/ KeySelect
  \/ KeyDisconnect
  \/ TimerTicks
  \/ RecvConnect
  \/ RecvConnectionEstablished
  \/ RecvConnectionFailed
  \/ RecvDisconnected
  \/ ConnectSpawn
  \/ ConnectCheck
  \/ DisconnectRun
  \/ HealthCheckRun
  \/ MasterExits

SpecSession == Init /\ [][NextSession]_vars

(***************************************************************************)
(* The tunnel protocol under sessions to the first host: every key of the  *)
(* tunnel panel and of the modal, no timer and no master that exits by     *)
(* itself (a tunnel command may still fail).                               *)
(***************************************************************************)
NextTunnels ==
  \/ KeyQuit
  \/ KeyModalSubmitValid
  \/ KeyNavigate
  \/ KeySelectFirst
  \/ KeySwitchPanel
  \/ KeyDisconnect
  \/ KeyShowAddTunnelModal
  \/ KeyRestoreTunnels
  \/ KeyToggleTunnel
  \/ KeyDeleteTunnel
  \/ RecvConnect
  \/ RecvConnectionEstablished
  \/ RecvConnectionFailed
  \/ RecvDisconnected
  \/ RecvTunnelFailed
  \/ RecvToggleTunnel
  \/ RecvTunnelToggled
  \/ RecvTunnelDeleted
  \/ ConnectSpawn
  \/ ConnectCheck
  \/ DisconnectRun
  \/ ToggleRun
  \/ DeleteRun

SpecTunnels == Init /\ [][NextTunnels]_vars

(***************************************************************************)
(* Claims about the session life cycle.                                    *)
(***************************************************************************)
\* The message being applied is the result of the connect task of an earlier
\* Connect than the one that created the current session.
StaleConnectResult ==
  /\ RecvConnectionEstablished \/ RecvConnectionFailed
  /\ ~Head(action_rx).flag
  /\ connection.host # 0
  /\ Head(action_rx).g < connection.g

\* C1: the result of the connect task of an earlier Connect(A), applied after
\* Connect(B) has made B the current session, changes neither the
\* ConnectionStatus, nor the current Session, nor the TunnelRegistry.
C1_StaleConnectResultHarmless ==
  [][StaleConnectResult =>
       UNCHANGED <<connection_status, connection, tunnels>>]_vars

\* C2: the status becomes Connected only on the liveness confirmation of the
\* current session: the ConnectionEstablished that sets it was sent by the
\* connect task of the Connect that created the current session.
C2_ConnectedOnOwnLivenessCheck ==
  [][(RecvConnectionEstablished /\ connection_status'.st = "Connected") =>
       Head(action_rx).g = connection.g]_vars

\* C10: applying ConnectionFailed(reason) yields Error(reason), no current
\* Session and an empty TunnelRegistry, whether the message comes from a
\* connect task or from the health check of a Connected session.
C10_ConnectionFailedResets ==
  [][RecvConnectionFailed =>
       /\ connection_status' = Error(Head(action_rx).msg)
       /\ connection' = NoConnection
       /\ tunnels' = <<>>]_vars

\* A health check has failed on a session that had restored tunnels.
C10_HealthCheckFailureApplied ==
  /\ connection_status = Error(LostError)
  /\ connection = NoConnection
  /\ tunnels = <<>>
  /\ issued # {}

(***************************************************************************)
(* Claims about the tunnel protocol.                                       *)
(***************************************************************************)
\* The identities in the registry ts.
Ids(ts) == {ts[i].id : i \in 1..Len(ts)}

\* The master behind the socket of the current session.
LiveMaster == master[socket_path(Hosts[connection.host])]

Enables(t) == t.kind = "toggle" /\ ~t.enabled

\* C4: at no time are an enable task and a disable task for the same tunnel
\* identity both spawned and not yet reported.
C4_NoContradictoryRequests ==
  \A t1, t2 \in BagToSet(tasks) :
    (t1.kind \in TunnelTasks /\ t2.kind \in TunnelTasks /\ t1.id = t2.id)
      => (Enables(t1) <=> Enables(t2))

\* C5: TunnelToggled(id, flag) sets the flag of the tunnel whose identity is
\* id and changes nothing else in the registry (nothing at all when no tunnel
\* has that identity); TunnelDeleted(id) with an absent identity leaves the
\* registry unchanged.
C5_CompletionResolvesByIdentity ==
  [][/\ RecvTunnelToggled =>
          /\ Len(tunnels') = Len(tunnels)
          /\ \A i \in 1..Len(tunnels) :
               tunnels'[i] = IF tunnels[i].id = Head(action_rx).n
                             THEN [tunnels[i] EXCEPT !.enabled = Head(action_rx).flag]
                             ELSE tunnels[i]
     /\ (RecvTunnelDeleted /\ Head(action_rx).n \notin Ids(tunnels)) =>
          tunnels' = tunnels]_vars

\* A TunnelToggled is about to be applied to a tunnel whose list position is
\* not the one it had when it was added.
C5_ToggledTunnelHasMoved ==
  /\ running /\ action_rx # <<>>
  /\ Head(action_rx).op = "TunnelToggled"
  /\ position_of(tunnels, Head(action_rx).n) \notin {0, Head(action_rx).n}
  /\ tunnels[position_of(tunnels, Head(action_rx).n)].enabled # Head(action_rx).flag

\* The registry ts without the tunnel at position p.
WithoutPosition(ts, p) ==
  [j \in 1..(Len(ts) - 1) |-> IF j < p THEN ts[j] ELSE ts[j + 1]]

\* A step that ends the session or starts another one clears the registry.
SessionStep ==
  RecvConnect \/ RecvConnectionFailed \/ RecvDisconnected \/ KeyDisconnect

\* C6: DeleteTunnel on an enabled tunnel leaves the registry as it is and an
\* enabled tunnel leaves the registry of a session only when TunnelDeleted
\* for its identity is applied; DeleteTunnel on a disabled tunnel removes
\* exactly that tunnel in the same step.
C6_DeleteDeferredWhileEnabled ==
  [][/\ (KeyDeleteTunnel /\ tunnel_list_state \in 1..Len(tunnels)) =>
          IF tunnels[tunnel_list_state].enabled
          THEN tunnels' = tunnels
          ELSE tunnels' = WithoutPosition(tunnels, tunnel_list_state)
     /\ \A i \in 1..Len(tunnels) :
          (tunnels[i].enabled /\ tunnels[i].id \notin Ids(tunnels')) =>
            \/ RecvTunnelDeleted /\ Head(action_rx).n = tunnels[i].id
            \/ SessionStep]_vars

\* The disable task of a DeleteTunnel is in flight and its tunnel, enabled,
\* is still in the registry next to another tunnel.
C6_DeletePending ==
  \E t \in BagToSet(tasks) :
    /\ t.kind = "delete"
    /\ position_of(tunnels, t.id) # 0
    /\ tunnels[position_of(tunnels, t.id)].enabled
    /\ Len(tunnels) > 1

\* C7: whenever DeleteTunnel or TunnelDeleted removes a tunnel from the
\* registry, the forwarding rule of that tunnel is not active on the master
\* of the live session (unless a tunnel that stays has the same spec).
C7_DeleteNeverOrphansRule ==
  [][(KeyDeleteTunnel \/ RecvTunnelDeleted) =>
       \A i \in 1..Len(tunnels) :
         (tunnels[i].id \notin Ids(tunnels') /\ connection.host # 0) =>
           \/ LiveMaster.rules[forward_spec(tunnels[i])] = 0
           \/ \E j \in 1..Len(tunnels') :
                forward_spec(tunnels'[j]) = forward_spec(tunnels[i])]_vars

\* The enabled flag of the tunnel with identity id (FALSE when absent).
EnabledFlag(ts, id) ==
  \E i \in 1..Len(ts) : ts[i].id = id /\ ts[i].enabled

\* C8: an enable of a tunnel followed, after it completed, by a disable,
\* both succeeding, sets the flag on the first completion and returns it to
\* its original value (disabled) on the second; neither completion changes
\* another tunnel, and nothing else changes the flag in between.
C8_EnableThenDisableRestoresFlag ==
  [][/\ (exp.ph \in {1, 3} /\ exp'.ph = exp.ph + 1) =>
          /\ exp.id \in Ids(tunnels')
          /\ EnabledFlag(tunnels', exp.id) = (exp.ph = 1)
          /\ Len(tunnels') = Len(tunnels)
          /\ \A i \in 1..Len(tunnels) :
               tunnels[i].id # exp.id => tunnels'[i] = tunnels[i]
     /\ (exp.ph \in {1, 2, 3} /\ exp'.id = exp.id /\ exp'.ph \in {exp.ph, 3}) =>
          /\ exp.id \in Ids(tunnels')
          /\ EnabledFlag(tunnels', exp.id) = EnabledFlag(tunnels, exp.id)
          /\ EnabledFlag(tunnels, exp.id) = (exp.ph # 1)]_vars

\* The enable and the disable of the second tunnel have both completed, and
\* the tunnel before it was deleted meanwhile.
C8_ToggledTwice ==
  /\ exp.ph = 4
  /\ exp.id = 2
  /\ position_of(tunnels, 2) = 1
  /\ ~tunnels[1].enabled

\* C9: every tunnel a step adds to the registry is disabled and has an
\* identity that was never in the registry before; the identities in the
\* registry are pairwise distinct.
C9_NewTunnelsDisabledAndFresh ==
  [][/\ \A i \in 1..Len(tunnels') :
          tunnels'[i].id \notin Ids(tunnels) =>
            ~tunnels'[i].enabled /\ tunnels'[i].id \notin issued
     /\ \A i, j \in 1..Len(tunnels') :
          tunnels'[i].id = tunnels'[j].id => i = j]_vars

\* An identity has left the registry and the tunnels in the registry have
\* identities generated after it.
C9_RegistryAfterRemoval ==
  /\ tunnels # <<>>
  /\ \E id \in issued : id \notin Ids(tunnels)
  /\ \A i \in 1..Len(tunnels) : \A id \in issued \ Ids(tunnels) : tunnels[i].id > id

(***************************************************************************)
(* Claims about Disconnect, ModalSubmit and the teardown tasks.            *)
(***************************************************************************)
\* The specs of the registry ts, as History::save_tunnels stores them.
SavedSpecs(ts) == [i \in 1..Len(ts) |-> SavedTunnel_from(ts[i])]

\* C11: Disconnect applied while a Session to host H is current stores the
\* specs of the registry in H's history record and, in the same step, sets
\* the status to Disconnected, empties the registry and removes the Session,
\* while the teardown task it spawns has not run yet.
C11_DisconnectPersistsAndResets ==
  [][(KeyDisconnect /\ connection.host # 0) =>
       /\ get_saved_tunnels(history', Hosts[connection.host].name)
            = SavedSpecs(tunnels)
       /\ connection_status' = Disconnected
       /\ tunnels' = <<>>
       /\ connection' = NoConnection
       /\ tasks' = Spawn(tasks, DisconnectTask(connection, TRUE))
       /\ master' = master]_vars

\* A ToggleTunnel that a ModalSubmit sent is being applied; its tunnel is
\* still in the registry of the session, which is still Connected.
SubmittedToggleApplied ==
  /\ RecvToggleTunnel
  /\ ~Head(action_rx).flag
  /\ Head(action_rx).g \in Ids(tunnels)
  /\ connection.host # 0
  /\ connection_status.st = "Connected"

\* C12: a ModalSubmit that passes validation appends one disabled tunnel,
\* closes the modal, moves the focus to the tunnel panel and queues the
\* request to enable the tunnel; when that request is applied it resolves to
\* the tunnel the submission created and starts the enable of that tunnel.
C12_SubmitEnablesItsTunnel ==
  [][/\ KeyModalSubmit =>
          /\ Len(tunnels') = Len(tunnels) + 1
          /\ SubSeq(tunnels', 1, Len(tunnels)) = tunnels
          /\ ~tunnels'[Len(tunnels')].enabled
          /\ ~add_modal'
          /\ active_panel' = "Tunnels"
          /\ action_rx' = Append(action_rx,
               Msg("ToggleTunnel", Len(tunnels'), FALSE, "",
                   tunnels'[Len(tunnels')].id))
     /\ SubmittedToggleApplied =>
          /\ Head(action_rx).n \in 1..Len(tunnels)
          /\ tunnels[Head(action_rx).n].id = Head(action_rx).g
          /\ tasks' = Spawn(tasks, ToggleTask(connection, tunnels[Head(action_rx).n]))
          /\ connection_status' = connection_status]_vars

\* Task t ends in this step (the program keeps running).
Ends(t) == running' /\ t \in BagToSet(tasks) /\ tasks' = Finish(tasks, t)

\* C13: Connect applied while a Session is current starts the teardown of
\* that session as a task that reports nothing; when the task ends, with
\* the master gone or not, no message is enqueued and the status, the
\* current Session and the registry are unchanged.
C13_OldTeardownFireAndForget ==
  [][/\ (RecvConnect /\ Head(action_rx).n \in HostIdx /\ connection.host # 0) =>
          \E t \in BagToSet(tasks') :
            /\ t.kind = "disconnect" /\ t.g = connection.g /\ ~t.report
            /\ tasks' = Spawn(Spawn(tasks, t), ConnectTask(Head(action_rx).n, gen + 1))
     /\ \A t \in BagToSet(tasks) :
          (t.kind = "disconnect" /\ ~t.report /\ Ends(t)) =>
            /\ action_rx' = action_rx
            /\ UNCHANGED <<connection_status, connection, tunnels>>]_vars

\* The teardown of the first session is in flight against its running
\* master while the session of the second Connect is current.
C13_OldTeardownInFlight ==
  \E t \in BagToSet(tasks) :
    /\ t.kind = "disconnect" /\ ~t.report
    /\ connection.host # 0 /\ connection.g = t.g + 1
    /\ master[t.sock].up

\* C14: the Disconnected report of a teardown the user asked for changes
\* nothing when the state is already Disconnected with no Session and an
\* empty registry, and nothing of the status, the Session and the registry of
\* a session that a Connect created after the Disconnect request.
C14_DisconnectedOnlyReconfirms ==
  [][RecvDisconnected =>
       /\ (connection = NoConnection /\ connection_status = Disconnected
             /\ tunnels = <<>>) =>
            UNCHANGED <<connection_status, connection, tunnels,
                        tunnel_list_state, active_panel, add_modal,
                        modal_error, search_mode, search_query,
                 filtered_host_indices, show_help, tick_count,
                        ssh_config, hosts, history>>
       /\ (connection.host # 0 /\ Head(action_rx).g < connection.g) =>
            UNCHANGED <<connection_status, connection, tunnels>>]_vars

\* C15: the teardown task of a session never brings down the master (the
\* subprocess and its socket file) that the connect task of a later session
\* has spawned, also when both sessions have the same socket path.
C15_TeardownSparesLaterSession ==
  [][\A t \in BagToSet(tasks) :
       (t.kind = "disconnect" /\ Ends(t)
          /\ master[t.sock].up /\ master[t.sock].owner > t.g) =>
         master'[t.sock] = master[t.sock]]_vars

\* Nothing is in flight and no message waits.
Quiescent == tasks = EmptyBag /\ action_rx = <<>>

\* C16: every master a connect task has spawned is brought down by the
\* teardown of its session: once no session is current, no task is in flight
\* and no message waits, no master is left running.
C16_NoMasterLeftBehind ==
  (running /\ connection = NoConnection /\ Quiescent) =>
    \A s \in Socks : ~master[s].up

(***************************************************************************)
(* Claims about failures, tasks and the order of messages.                 *)
(***************************************************************************)
\* C17: applying TunnelFailed changes neither the status, nor the current
\* Session, nor the registry (contents, order, enabled flags), nor anything
\* else of the application state but the notification.
C17_TunnelFailedChangesNothing ==
  [][RecvTunnelFailed =>
       UNCHANGED <<connection_status, connection, tunnels, tunnel_list_state,
                   active_panel, add_modal, modal_error, search_mode, search_query,
                 filtered_host_indices,
                   show_help, tick_count, ssh_config, hosts, history, running,
                   tasks>>]_vars

\* A toggle of a tunnel that is in the registry has failed and its report is
\* about to be applied; the tunnel has the flag it had before the request.
C17_FailureOfRegisteredTunnel ==
  /\ running /\ action_rx # <<>>
  /\ Head(action_rx).op = "TunnelFailed"
  /\ connection_status.st = "Connected"
  /\ Head(action_rx).n \in Ids(tunnels)

\* The sessions whose connect task is in flight.
ConnectTasks(bag) == {t.g : t \in {u \in BagToSet(bag) : u.kind = "connect"}}

\* C18: while the status is Error, only a Connect (which only the user's
\* Enter sends) moves the status out of Error or spawns a connect task.
C18_ErrorUntilUserConnect ==
  [][(connection_status.st = "Error" /\ ~RecvConnect) =>
       /\ connection_status' = connection_status
       /\ ConnectTasks(tasks') \subseteq ConnectTasks(tasks)]_vars

(***************************************************************************)
(* The detached tasks on their own: one host, a user who connects,         *)
(* disconnects, toggles and deletes the saved tunnel, the timer, and a     *)
(* master that may exit.                                                   *)
(***************************************************************************)
NextTasks ==
  \/ KeySelectFirst
  \/ KeySwitchPanel
  \/ KeyDisconnect
  \/ KeyToggleTunnel
  \/ KeyDeleteTunnel
  \/ TimerTicks
  \/ RecvConnect
  \/ RecvConnectionEstablished
  \/ RecvConnectionFailed
  \/ RecvDisconnected
  \/ RecvTunnelFailed
  \/ RecvTunnelToggled
  \/ RecvTunnelDeleted
  \/ ConnectSpawn
  \/ ConnectCheck
  \/ DisconnectRun
  \/ HealthCheckRun
  \/ ToggleRun
  \/ DeleteRun
  \/ MasterExits

SpecTasks == Init /\ [][NextTasks]_vars

\* Some message has been enqueued in this step, and only one.
SentOne ==
  /\ Len(action_rx') = Len(action_rx) + 1
  /\ SubSeq(action_rx', 1, Len(action_rx)) = action_rx

\* A task that has to report: every task but the teardown that Connect
\* starts for the session it replaces.
Reporting(t) == t.kind \in {"connect", "toggle", "delete", "check"} \/ t.report

\* C19 as claimed: every task spawned for a connect, a teardown the user
\* asked for, a toggle, a deferred delete or a health check enqueues exactly
\* one message, whatever the outcome: one when it ends, none before.
C19_ExactlyOneMessagePerTask ==
  [][/\ \A t \in BagToSet(tasks) : (Reporting(t) /\ Ends(t)) => SentOne
     /\ ConnectSpawn => action_rx' = action_rx]_vars

\* C19 as amended: the tasks of connect, teardown, toggle and deferred delete
\* enqueue exactly one message, whatever the outcome; the task of a health
\* check enqueues one message (ConnectionFailed) when the check fails and
\* none when it succeeds; no task enqueues more than one.
C19_OneMessagePerTaskButHealthCheck ==
  [][/\ \A t \in BagToSet(tasks) :
          (Reporting(t) /\ Ends(t)) =>
            IF t.kind = "check" /\ master[t.sock].up
            THEN action_rx' = action_rx
            ELSE SentOne
     /\ ConnectSpawn => action_rx' = action_rx]_vars

\* A health check has failed and its one message waits in the channel while
\* a toggle task of the same session is still in flight.
C19_HealthCheckReported ==
  /\ \E k \in 1..Len(action_rx) :
       action_rx[k].op = "ConnectionFailed" /\ action_rx[k].flag
  /\ \E t \in BagToSet(tasks) : t.kind = "toggle"

\* The main loop takes the events branch of its select!: a key or a timer
\* event that arrives now is applied.
EventApplied ==
  \/ KeyQuit \/ KeyModalSubmit \/ KeyNavigate \/ KeySelect \/ KeySwitchPanel
  \/ KeyDisconnect \/ KeyShowAddTunnelModal \/ KeyRestoreTunnels
  \/ KeyToggleTunnel \/ KeyDeleteTunnel \/ TimerTicks

\* C20: messages are applied in the order of their arrival, whatever their
\* source: a key or timer event that arrives while a message waits in the
\* action channel is applied after that message, never before it.
C20_AppliedInArrivalOrder ==
  [][EventApplied => action_rx = <<>>]_vars

(***************************************************************************)
(* Connecting and disconnecting, with a producer that holds a sender of    *)
(* the action channel and may send a Connect for a position past the host  *)
(* list (the keys only send positions of the list); no timer, and no       *)
(* master exits by itself.                                                 *)
(***************************************************************************)
SendConnectOutOfRange ==
  /\ running
  /\ gen + PendingConnects(action_rx) < MaxConnects
  /\ Room(action_rx, 2) /\ RoomWork(action_rx, 1)
  /\ \E idx \in {Len(Hosts) + 1, Len(Hosts) + 2} :
       action_rx' = Append(action_rx, Msg("Connect", idx, FALSE, "", 0))
  /\ UNCHANGED tasks
  /\ UNCHANGED master
  /\ app_unchanged

NextConnect ==
  \/ KeyQuit
  \/ KeySelect
  \/ KeyDisconnect
  \/ SendConnectOutOfRange
  \/ RecvConnect
  \/ RecvConnectionEstablished
  \/ RecvConnectionFailed
  \/ RecvDisconnected
  \/ ConnectSpawn
  \/ ConnectCheck
  \/ DisconnectRun

SpecConnect == Init /\ [][NextConnect]_vars

\* C21: applying Connect(idx) with a position H of the host list leaves, in
\* that one step, the status Connecting, the registry empty with no tunnel
\* selected, and a current Session for H that no check has confirmed (its
\* connect task is spawned and has not run), with the socket path of H; with
\* a position outside the host list nothing of the state changes and no task
\* is spawned.
C21_ConnectStep ==
  [][RecvConnect =>
       LET idx == Head(action_rx).n
       IN IF idx \in HostIdx
          THEN /\ connection_status' = Connecting
               /\ tunnels' = <<>>
               /\ tunnel_list_state' = 0
               /\ connection' = [host |-> idx, g |-> gen + 1]
               /\ \E t \in BagToSet(tasks') :
                    /\ t \notin BagToSet(tasks)
                    /\ t.kind = "connect" /\ t.pc = "start"
                    /\ t.g = connection'.g
                    /\ t.sock = socket_path(Hosts[idx])
               /\ master' = master
          ELSE /\ tasks' = tasks
               /\ UNCHANGED <<running, connection, connection_status, tunnels,
                              tunnel_list_state, active_panel, add_modal,
                              history, master, gen, next_id>>]_vars

\* A Connect has been applied to a session that had tunnels in its
\* registry: the new session is current and Connecting, the registry is
\* empty, and nothing has run yet for either session.
C21_ConnectAppliedOverSession ==
  /\ connection_status = Connecting
  /\ connection.host # 0
  /\ tunnels = <<>>
  /\ issued # {}
  /\ \E t \in BagToSet(tasks) :
       t.kind = "connect" /\ t.pc = "start" /\ t.g = connection.g
  /\ \E t \in BagToSet(tasks) :
       t.kind = "disconnect" /\ t.g + 1 = connection.g

\* C22: ConnectionEstablished applied with a current Session for host H
\* makes the status Connected(H), raises H's use count by exactly one and
\* leaves a registry of exactly one disabled tunnel per saved tunnel spec
\* of H, in saved order, the first one selected if there is one; applied
\* with no current Session it changes nothing.
C22_EstablishedLoadsSavedTunnels ==
  [][RecvConnectionEstablished =>
       IF connection.host # 0
       THEN LET name == Hosts[connection.host].name
                saved == get_saved_tunnels(history, name)
            IN /\ connection_status' = Connected(name)
               /\ history'[name].use_count = history[name].use_count + 1
               /\ Len(tunnels') = Len(saved)
               /\ \A i \in 1..Len(saved) :
                    /\ SavedTunnel_from(tunnels'[i]) = saved[i]
                    /\ ~tunnels'[i].enabled
               /\ Len(saved) > 0 => tunnel_list_state' = 1
       ELSE UNCHANGED <<running, connection, connection_status, tunnels,
                        tunnel_list_state, active_panel, add_modal,
                        modal_error, history, tasks, master, gen,
                        next_id>>]_vars

(***************************************************************************)
(* The health check on its own: sessions to the first host, the timer      *)
(* tick by tick, and a master that may exit.                               *)
(***************************************************************************)
NextHealth ==
  \/ KeySelectFirst
  \/ TimerTick
  \/ RecvConnect
  \/ RecvConnectionEstablished
  \/ RecvConnectionFailed
  \/ ConnectSpawn
  \/ ConnectCheck
  \/ DisconnectRun
  \/ HealthCheckRun
  \/ MasterExits

SpecHealth == Init /\ [][NextHealth]_vars

\* C23: a Tick (applied alone, or as the last of the Ticks up to the next
\* multiple of 40) spawns a health-check task exactly when the tick counter
\* reaches a multiple of 40 and the status is Connected, and then it is a
\* check of the current session; no other tick and no other step spawns
\* one; and the check itself changes neither the Session nor any other
\* reducer state nor the master: it ends and at most enqueues one
\* ConnectionFailed.
C23_HealthCheckSchedule ==
  [][/\ (TimerTick \/ TimerTicks) =>
          IF tick_count' = 0 /\ connection_status.st = "Connected"
          THEN tasks' = Spawn(tasks, CheckTask(connection))
          ELSE tasks' = tasks
     /\ (\E t \in BagToSet(tasks') :
           t.kind = "check" /\ CopiesIn(t, tasks') > CopiesIn(t, tasks))
          => (TimerTick \/ TimerTicks)
     /\ HealthCheckRun =>
          /\ UNCHANGED <<running, connection, connection_status, tunnels,
                         tunnel_list_state, active_panel, add_modal,
                         modal_error, history, tick_count, master, gen,
                         next_id>>
          /\ \/ action_rx' = action_rx
             \/ /\ Len(action_rx') = Len(action_rx) + 1
                /\ SubSeq(action_rx', 1, Len(action_rx)) = action_rx
                /\ action_rx'[Len(action_rx')].op = "ConnectionFailed"]_vars

\* The 40th tick has been applied while Connected: the check of the current
\* session is in flight and has not run.
C23_CheckSpawnedWhileConnected ==
  /\ tick_count = 0
  /\ connection_status.st = "Connected"
  /\ \E t \in BagToSet(tasks) :
       t.kind = "check" /\ t.pc = "start" /\ t.g = connection.g

(***************************************************************************)
(* The modes of the keyboard: the add-tunnel modal with every text, the    *)
(* search and the help overlay, over sessions to the first host and the    *)
(* tunnels that submissions add and enable.                                *)
(***************************************************************************)
NextModal ==
  \/ KeyQuit
  \/ KeyModalSubmit
  \/ KeyModalEdit
  \/ KeyStartSearch
  \/ KeyEndSearch
  \/ KeyShowHelp
  \/ KeySelectFirst
  \/ KeyShowAddTunnelModal
  \/ RecvConnect
  \/ RecvConnectionEstablished
  \/ RecvConnectionFailed
  \/ RecvTunnelFailed
  \/ RecvToggleTunnel
  \/ RecvTunnelToggled
  \/ ConnectSpawn
  \/ ConnectCheck
  \/ DisconnectRun
  \/ ToggleRun

SpecModal == Init /\ [][NextModal]_vars

\* C24: a ModalSubmit whose text breaks a rule (the local port is not a
\* positive integer, the local port cannot be bound, the remote host is
\* empty, the remote port is not a positive integer) sets the error message
\* of the modal and blocks the submission: the modal stays open, the
\* registry is unchanged and no enable request is issued.
C24_InvalidSubmitBlocked ==
  [][\A text \in ModalTexts :
       LET Positive(ds) == ds # <<>> /\ DecimalValue(ds) > 0
           BreaksRule ==
             \/ ~Positive(text.local_port)
             \/ ~is_port_available(DecimalValue(text.local_port))
             \/ text.remote_host = ""
             \/ ~Positive(text.remote_port)
       IN (running /\ BreaksRule /\ UpdateModalSubmit(text, action_rx)) =>
            /\ modal_error' # ""
            /\ add_modal'
            /\ tunnels' = tunnels
            /\ action_rx' = action_rx
            /\ tasks' = tasks]_vars

\* A submission for a local port that an enabled tunnel of the session
\* already forwards has been rejected: the modal is open with its message.
C24_PortInUseRejected ==
  /\ add_modal
  /\ modal_error = "Port 5432 is already in use"
  /\ \E i \in 1..Len(tunnels) :
       tunnels[i].enabled /\ tunnels[i].local_port = 5432

\* C25: for a host that has a history record, saving the registry and then
\* reading the saved tunnels of that host returns the specs of the registry
\* (local port, remote host, remote port), as many and in the same order,
\* whatever the identities and the enabled flags of the tunnels.
C25_SaveThenReadRoundTrip ==
  [][(/\ connection.host # 0
      /\ history[Hosts[connection.host].name].present
      /\ KeyDisconnect \/ (KeyQuit /\ ~running')) =>
       LET saved == get_saved_tunnels(history', Hosts[connection.host].name)
       IN /\ Len(saved) = Len(tunnels)
          /\ \A i \in 1..Len(tunnels) :
               /\ forward_spec(saved[i]) = forward_spec(tunnels[i])
               /\ DOMAIN saved[i] =
                    {"local_port", "remote_host", "remote_port"}]_vars

\* Disconnect has saved a registry of two tunnels, the second of them
\* enabled (its forward is still up: the teardown has not run).
C25_TwoTunnelsSaved ==
  /\ connection_status = Disconnected
  /\ Len(history[Hosts[1].name].tunnels) = 2
  /\ forward_spec(history[Hosts[1].name].tunnels[1]) #
       forward_spec(history[Hosts[1].name].tunnels[2])
  /\ \E s \in Socks :
       /\ master[s].up
       /\ master[s].rules[forward_spec(history[Hosts[1].name].tunnels[2])] > 0
       /\ master[s].rules[forward_spec(history[Hosts[1].name].tunnels[1])] = 0

\* C26: no error ends the process: running becomes false only in a step
\* that applies Quit while no add-tunnel modal, no search and no help
\* overlay is open; applying ConnectionFailed or TunnelFailed and a
\* rejected submission of the modal leave it as it is.
C26_OnlyQuitStopsTheLoop ==
  [][/\ (running /\ ~running') =>
          (KeyQuit /\ ~add_modal /\ ~search_mode /\ ~show_help)
     /\ (\/ RecvConnectionFailed
         \/ RecvTunnelFailed
         \/ KeyModalSubmit) => running' = running]_vars

\* The loop has been left by a Quit, after a ConnectionFailed had been
\* applied and shown as an Error status.
C26_QuitAfterAnError ==
  /\ ~running
  /\ connection_status.st = "Error"
  /\ ~add_modal /\ ~search_mode /\ ~show_help

(***************************************************************************)
(* Loading the hosts at startup, over config files with an Include: the    *)
(* directive names a glob or a plain path, and each file it may reach is   *)
(* absent, unreadable, or readable (one of them with an Include of its     *)
(* own).                                                                   *)
(***************************************************************************)
ConfigInputs ==
  LET Unreadable == [readable |-> FALSE, lines |-> <<>>]
      Readable(lines) == [readable |-> TRUE, lines |-> lines]
      Absent == [n \in {} |-> Unreadable]
      Main(pattern) ==
        ConfigPath :> Readable(<< Line("host", "prod"),
                                  Line("hostname", "10.0.0.1"),
                                  Line("include", pattern),
                                  Line("host", "dev"),
                                  Line("port", <<2, 2>>) >>)
      A == { Absent, DirOrder[1] :> Unreadable,
             DirOrder[1] :> Readable(<<Line("host", "alpha")>>) }
      B == { Absent, DirOrder[2] :> Readable(<<Line("host", "beta")>>),
             DirOrder[2] :> Readable(<< Line("host", "beta"),
                                        Line("include", DirOrder[4]) >>) }
      Z == { Absent, DirOrder[4] :> Unreadable,
             DirOrder[4] :> Readable(<< Line("host", "*"),
                                        Line("host", "zeta") >>) }
  IN { Main(pattern) @@ a @@ b @@ z :
         pattern \in {<<"*", ".", "c">>, DirOrder[1], DirOrder[2]},
         a \in A, b \in B, z \in Z }

InitConfig == \E fs \in ConfigInputs : InitWith(fs, <<>>)

\* main: app.load_hosts(&ssh_config_path), once, before the loop.
LoadHosts ==
  /\ hosts' = load_hosts(ssh_config)
  /\ filtered_host_indices' = rebuild_filtered_indices(hosts', search_query)
  /\ UNCHANGED <<running, connection, connection_status, tunnels,
                 tunnel_list_state, active_panel, add_modal, modal_error,
                 search_mode, search_query, show_help, tick_count, ssh_config, history,
                 action_rx, tasks, master, gen, next_id, issued, exp>>

SpecConfig == InitConfig /\ [][LoadHosts]_vars

\* C27: loading the hosts tolerates a failing include: when an Include
\* directive (a glob or a plain path) names a file that cannot be read or
\* parsed, the load still succeeds and returns the hosts defined outside
\* that include: once the load has nothing left to change, the hosts are
\* those that the config yields with the failing files not there.
C27_FailingIncludeTolerated ==
  LET parsed == { f \in DOMAIN ssh_config :
                    f = ConfigPath \/ parse_ssh_config(ssh_config, f).ok }
  IN (~ENABLED <<LoadHosts>>_vars) =>
       hosts = load_hosts([f \in parsed |-> ssh_config[f]])

\* C28: the registry flags agree with the live session once quiescent: in
\* every reachable state in which the status is Connected and no tunnel
\* task is in flight (and no message waits), the forwarding rules active on
\* the master of the current session are exactly the specs of the registry
\* tunnels whose enabled flag is true.
C28_FlagsAgreeWhenQuiescent ==
  (/\ running
   /\ connection_status.st = "Connected"
   /\ connection.host # 0
   /\ Quiescent) =>
    {r \in Rules : LiveMaster.rules[r] > 0} =
      {forward_spec(tunnels[i]) :
         i \in {j \in 1..Len(tunnels) : tunnels[j].enabled}}

\* C29 as stated: in every reachable state a current Session exists exactly
\* when the status is Connecting or Connected, and the name of a Connected
\* status is the host name of the current Session.
C29_SessionIffConnectingOrConnected ==
  /\ connection.host # 0 <=>
       connection_status.st \in {"Connecting", "Connected"}
  /\ connection_status.st = "Connected" =>
       /\ connection.host # 0
       /\ connection_status = Connected(Hosts[connection.host].name)

\* C29: the same in every state of the main loop (running is true).
C29_SessionIffConnectingOrConnectedInLoop ==
  running => C29_SessionIffConnectingOrConnected

\* The loop runs with a second session, to the second host, confirmed: the
\* status names that host.
C29_ConnectedToSecondSession ==
  /\ running
  /\ connection = [host |-> 2, g |-> 2]
  /\ connection_status = Connected(Hosts[2].name)

\* C30: a health-check failure affects only the session it probed: when the
\* failure report of a health check is applied after a Connect to B or a
\* Disconnect has been applied (the session it probed is no longer the
\* current one), it does not discard the current session, does not change
\* the status and does not clear the registry.
C30_HealthCheckFailureSparesLaterSession ==
  [][(/\ RecvConnectionFailed
      /\ Head(action_rx).flag
      /\ Head(action_rx).g # connection.g) =>
       UNCHANGED <<connection, connection_status, tunnels>>]_vars

(***************************************************************************)
(* Claims about the registry, the history and the overlays.                *)
(***************************************************************************)
\* C31: tunnels exist only under a session: in every state of the main loop
\* in which no Session is current the TunnelRegistry is empty; an add-tunnel
\* modal that is still open when the session is lost or disconnected cannot
\* add a tunnel.
C31_NoTunnelsWithoutSession ==
  (running /\ connection.host = 0) => tunnels = <<>>

\* C32: the saved tunnel specs of a host are overwritten only with the
\* registry of a session that reached Connected: Disconnect, or quitting,
\* applied while the status is Connecting leaves the saved tunnel specs of
\* every host unchanged.
C32_ConnectingSessionNeverSaved ==
  [][(/\ connection_status.st = "Connecting"
      /\ KeyDisconnect \/ (KeyQuit /\ ~running')) =>
       \A n \in HostNames : history'[n].tunnels = history[n].tunnels]_vars

\* C33: RestoreTunnels while Connected appends one new disabled tunnel per
\* saved spec of the connected host, in saved order, and changes nothing
\* when not Connected; and each ToggleTunnel(position) it queued resolves,
\* when applied, to the tunnel it was queued for (which is still in the
\* registry of the session) and starts the enable of that tunnel.
C33_RestoreEnablesItsTunnels ==
  [][/\ KeyRestoreTunnels =>
          IF connection_status.st = "Connected"
          THEN LET saved == get_saved_tunnels(history, connection_status.arg)
               IN /\ Len(tunnels') = Len(tunnels) + Len(saved)
                  /\ SubSeq(tunnels', 1, Len(tunnels)) = tunnels
                  /\ \A i \in 1..Len(saved) :
                       /\ forward_spec(tunnels'[Len(tunnels) + i]) =
                            forward_spec(saved[i])
                       /\ ~tunnels'[Len(tunnels) + i].enabled
                       /\ tunnels'[Len(tunnels) + i].id \notin Ids(tunnels)
          ELSE UNCHANGED <<tunnels, action_rx, tasks, connection,
                           connection_status, tunnel_list_state,
                           active_panel, history>>
     /\ (/\ RecvToggleTunnel
         /\ Head(action_rx).flag
         /\ Head(action_rx).g \in Ids(tunnels)
         /\ connection.host # 0) =>
          /\ Head(action_rx).n \in 1..Len(tunnels)
          /\ tunnels[Head(action_rx).n].id = Head(action_rx).g
          /\ tasks' = Spawn(tasks, ToggleTask(connection,
                                              tunnels[Head(action_rx).n]))]_vars

\* C34: after a Disconnect has been applied the status stays Disconnected
\* until the next Connect is applied: no other step (a result still in
\* flight from the disconnected session, a tunnel completion) changes a
\* status that is Disconnected.
C34_DisconnectedUntilNextConnect ==
  [][(connection_status = Disconnected /\ ~RecvConnect) =>
       connection_status' = Disconnected]_vars

\* C35: in every reachable state the tunnel selection is none or a position
\* of the TunnelRegistry, so that a ToggleTunnel or DeleteTunnel built from
\* the selection names an existing tunnel.
C35_SelectionWithinRegistry ==
  tunnel_list_state \in 0..Len(tunnels)

\* C36: at most one overlay is active at any time: in every reachable
\* state at most one of the add-tunnel modal, the search mode and the help
\* overlay is on, whatever keys map_key_to_action maps and whatever
\* messages are applied.
C36_AtMostOneOverlay ==
  Cardinality({o \in {"modal", "search", "help"} :
                 \/ o = "modal" /\ add_modal
                 \/ o = "search" /\ search_mode
                 \/ o = "help" /\ show_help}) <= 1

\* The search is on while the status is Connected, where a would open the
\* modal in the normal mode, and a message waits to be applied.
C36_SearchWhileConnected ==
  /\ running /\ search_mode /\ ~add_modal /\ ~show_help
  /\ connection_status.st = "Connected"
  /\ action_rx # <<>>

(***************************************************************************)
(* The search: queries typed over the host list, the overlays and the      *)
(* sessions that Enter on the first host starts while the filter shows it.  *)
(***************************************************************************)
NextSearch ==
  \/ KeyQuit
  \/ KeyStartSearch
  \/ KeySearchEdit
  \/ KeyEndSearch
  \/ KeyShowHelp
  \/ KeySelectFirst
  \/ KeySwitchPanel
  \/ KeyShowAddTunnelModal
  \/ RecvConnect
  \/ RecvConnectionEstablished
  \/ RecvConnectionFailed
  \/ ConnectSpawn
  \/ ConnectCheck
  \/ DisconnectRun

SpecSearch == Init /\ [][NextSearch]_vars

\* C37: Quit dismisses before it exits: a Quit closes the add-tunnel modal
\* if one is open; otherwise it leaves the search, clears the query and
\* restores the unfiltered host list; otherwise it hides the help overlay;
\* only when none of them is on does it set running to false.  In the first
\* three cases the status, the session and the registry are unchanged.
C37_QuitDismissesBeforeItExits ==
  [][KeyQuit =>
       IF add_modal
       THEN /\ ~add_modal' /\ running'
            /\ UNCHANGED <<search_mode, search_query, filtered_host_indices,
                           show_help, connection_status, connection, tunnels>>
       ELSE IF search_mode
       THEN /\ ~search_mode' /\ running'
            /\ search_query' = <<>>
            /\ filtered_host_indices' = [i \in 1..Len(hosts) |-> i]
            /\ UNCHANGED <<add_modal, show_help, connection_status,
                           connection, tunnels>>
       ELSE IF show_help
       THEN /\ ~show_help' /\ running'
            /\ UNCHANGED <<add_modal, search_mode, search_query,
                           filtered_host_indices, connection_status,
                           connection, tunnels>>
       ELSE ~running']_vars

\* A Quit can leave a search whose query is not empty and whose filter hides
\* a host, while a session is connected.
C37_QuitLeavesANarrowedSearch ==
  /\ search_mode /\ search_query # <<>>
  /\ Len(filtered_host_indices) < Len(hosts)
  /\ connection_status.st = "Connected"
  /\ ENABLED <<KeyQuit /\ running' /\ ~search_mode'>>_vars

\* C38: on shutdown with a current session the specs of the registry's
\* tunnels are the saved tunnels of that host's history record afterwards,
\* and the session's disconnect has run to completion before the process
\* exits: the master of its socket is gone and the session is taken.  With
\* no current session the shutdown writes nothing to the history.
C38_ShutdownSavesAndDisconnects ==
  [][(KeyQuit /\ ~running') =>
       IF connection.host # 0
       THEN LET name == Hosts[connection.host].name
                saved == get_saved_tunnels(history', name)
            IN /\ Len(saved) = Len(tunnels)
               /\ \A i \in 1..Len(tunnels) :
                    forward_spec(saved[i]) = forward_spec(tunnels[i])
               /\ \A n \in HostNames \ {name} : history'[n] = history[n]
               /\ ~master'[socket_path(Hosts[connection.host])].up
               /\ connection' = NoConnection
       ELSE history' = history]_vars

(***************************************************************************)
(* Liveness.  The runtime runs every spawned task to its end and the main  *)
(* loop takes every message that waits in the channel: weak fairness of    *)
(* the task steps and of the receive steps.  Keys, timer ticks and the     *)
(* death of a master may or may not happen.  The runs start without a      *)
(* history file, so that no bound of the model keeps a message waiting;    *)
(* those about deletes have no Quit, which would end the main loop.        *)
(***************************************************************************)
InitNoHistory == Init /\ history = [n \in HostNames |-> NoHistory]

SpecConnectFair ==
  /\ InitNoHistory
  /\ [][NextConnect]_vars
  /\ WF_vars(ConnectSpawn) /\ WF_vars(ConnectCheck) /\ WF_vars(DisconnectRun)
  /\ WF_vars(RecvConnect) /\ WF_vars(RecvConnectionEstablished)
  /\ WF_vars(RecvConnectionFailed) /\ WF_vars(RecvDisconnected)

\* C39: Connecting always resolves: when every spawned task finishes and
\* every message that waits is applied, a status Connecting is followed by
\* Connected, Error or Disconnected as long as the main loop runs, for any
\* number of overlapping Connect requests.
C39_ConnectingResolves ==
  (running /\ connection_status.st = "Connecting")
    ~> (~running \/ connection_status.st \in {"Connected", "Error", "Disconnected"})

\* Two Connect requests overlapped: the status has left Connecting after
\* the second was applied, while a connect task is still in flight.
C39_ResolvedWhileAnotherConnects ==
  /\ running /\ gen = 2
  /\ connection_status.st \in {"Connected", "Error"}
  /\ \E t \in BagToSet(tasks) : t.kind = "connect"

\* Sessions to the first host with the tunnels that the modal adds, their
\* toggles and their deletes.
NextDelete ==
  \/ KeyModalSubmitValid
  \/ KeySelectFirst
  \/ KeyShowAddTunnelModal
  \/ KeyToggleTunnel
  \/ KeyDeleteTunnel
  \/ RecvConnect
  \/ RecvConnectionEstablished
  \/ RecvConnectionFailed
  \/ RecvTunnelFailed
  \/ RecvToggleTunnel
  \/ RecvTunnelToggled
  \/ RecvTunnelDeleted
  \/ ConnectSpawn
  \/ ConnectCheck
  \/ DisconnectRun
  \/ ToggleRun
  \/ DeleteRun

SpecDeleteFair ==
  /\ InitNoHistory
  /\ [][NextDelete]_vars
  /\ WF_vars(DeleteRun)
  /\ WF_vars(RecvConnect \/ RecvConnectionEstablished \/ RecvConnectionFailed
               \/ RecvTunnelFailed \/ RecvToggleTunnel \/ RecvTunnelToggled
               \/ RecvTunnelDeleted)

\* C40: a requested delete always completes: a DeleteTunnel applied to an
\* existing tunnel removes it at once or leaves a delete task for it in
\* flight, and when every spawned task finishes and every message that
\* waits is applied, a tunnel with a delete task in flight or a
\* TunnelDeleted waiting is absent from the registry later on, whether the
\* tunnel was enabled or disabled and whether or not its disable succeeded.
C40_DeleteCompletes ==
  /\ [][(KeyDeleteTunnel /\ tunnel_list_state \in 1..Len(tunnels)) =>
          LET id == tunnels[tunnel_list_state].id
          IN \/ id \notin Ids(tunnels')
             \/ \E t \in BagToSet(tasks') : t.kind = "delete" /\ t.id = id]_vars
  /\ \A id \in 1..MaxWork :
       (/\ id \in Ids(tunnels)
        /\ \/ \E t \in BagToSet(tasks) : t.kind = "delete" /\ t.id = id
           \/ \E k \in 1..Len(action_rx) :
                action_rx[k].op = "TunnelDeleted" /\ action_rx[k].n = id)
         ~> (id \notin Ids(tunnels))

\* The delete of an enabled tunnel has completed although its disable
\* failed: the tunnel is gone from the registry of the current session and
\* the master still forwards its port.
C40_DeletedThoughDisableFailed ==
  /\ connection.host # 0 /\ tasks = EmptyBag /\ action_rx = <<>>
  /\ tunnels = <<>> /\ next_id > 1
  /\ \E r \in Rules : LiveMaster.up /\ LiveMaster.rules[r] > 0

=============================================================================
